---------------------------- MODULE Spec2Model ----------------------------
(***************************************************************************)
(* Model of bub_logger (src/bub_logger/bub_logger.py): the BubLogger       *)
(* coordinator, its configuration merge, and the dispatch of records from  *)
(* the queue to the handlers by the QueueListener and by flush_queue.      *)
(*                                                                         *)
(* Representation.                                                         *)
(*   - A Python dict is a TLA+ function on its set of keys (key order is   *)
(*     not kept); a Python list is a sequence.                             *)
(*   - A Config is a record [name, formatters, handlers, loggers].         *)
(*     formatters : formatter name -> (key -> value);                      *)
(*     handlers   : a sequence of [name, class, level, formatter,          *)
(*                  filename, queue] in insertion order of the dict, names *)
(*                  distinct; class is the value of "class" as the list    *)
(*                  of its dot-separated segments; formatter = NoFormatter,*)
(*                  filename = NoFilename, queue = NoQueueKey when the key *)
(*                  is absent;                                             *)
(*     loggers    : logger name -> [handlers : sequence of names, level].  *)
(*   - Severities are the integers of the logging module (DEBUG = 10 ...). *)
(*   - Python objects that are shared by reference (a formatter dict or a  *)
(*     logger dict that is both in a Config and in the combined config)    *)
(*     are modelled by an owner index into the list of Configs: an update  *)
(*     through the combined config is an update of the owning Config.      *)
(***************************************************************************)
EXTENDS Integers, Sequences, FiniteSets, TLC

\* ------------------------------------------------------------------ bounds
\* Longest list of documents handed to the merge in SpecMerge.
MaxDocs == 2

\* Most calls made on the coordinator in one run.
MaxCalls == 3

\* Most records one producer thread emits.
MaxEmits == 2

\* Most records the producer threads emit between them.
MaxRecords == 2

\* Most calls of get_logger counted beside the MaxCalls other calls.
MaxLookups == 2

\* Most calls of disable_console_logging made while load_config and
\* remove_config are called from another thread.
MaxDisables == 1

\* ----------------------------------------------------------------- helpers
NoFormatter == "<absent>"

NoFilename == "<no filename>"

\* The "queue" key of a handler config: absent, or the coordinator's queue.
NoQueueKey == "<no queue>"

SelfQueue == "self.queue"

\* "logging.handlers.QueueHandler", segment by segment.
QueueHandlerClass == <<"logging", "handlers", "QueueHandler">>

EmptyDict == [k \in {} |-> k]

Min(a, b) == IF b < a THEN b ELSE a

\* dict.update(other): the union of the keys, other's value on a shared key.
DictUpdate(d, other) ==
    [k \in (DOMAIN d) \cup (DOMAIN other) |->
        IF k \in DOMAIN other THEN other[k] ELSE d[k]]

\* Config.__init__: a document with the given name and parsed sections.
Config(name, formatters, handlers, loggers) ==
    [name |-> name, formatters |-> formatters, handlers |-> handlers,
     loggers |-> loggers]

\* ------------------------------------------------------------ merge engine
\* The state of merge_configs_and_get_handlers while it runs:
\*   docs     the Configs, as the merge has left them so far (it writes
\*            through shared references into them);
\*   fowner   combined_config["formatters"]: name -> index of the Config
\*            whose dict object the entry refers to;
\*   handlers combined_config["handlers"]: name -> handler config;
\*   actual   actual_handlers;
\*   lowner   combined_config["loggers"]: name -> index of the Config whose
\*            logger dict the entry refers to.
MergeStart(docs) ==
    [docs |-> docs, fowner |-> EmptyDict, handlers |-> EmptyDict,
     actual |-> <<>>, lowner |-> EmptyDict]

\* Lines 234-243 without line 244: a formatter name that is already in the
\* combined config has its dict updated in place and stays bound to it; a
\* new name is bound to this Config's dict.
MergeFormattersKeepBinding(m, i) ==
    LET mine == m.docs[i].formatters
        hit(j, n) == n \in DOMAIN mine /\ n \in DOMAIN m.fowner /\ m.fowner[n] = j
    IN  [m EXCEPT
          !.docs = [j \in DOMAIN m.docs |->
                      [m.docs[j] EXCEPT !.formatters =
                          [n \in DOMAIN m.docs[j].formatters |->
                              IF hit(j, n)
                              THEN DictUpdate(m.docs[j].formatters[n], mine[n])
                              ELSE m.docs[j].formatters[n]]]],
          !.fowner = [n \in (DOMAIN m.fowner) \cup (DOMAIN mine) |->
                        IF n \in DOMAIN m.fowner THEN m.fowner[n] ELSE i]]

\* Lines 234-244 for the Config at index i: a formatter name that is already
\* in the combined config has its dict (owned by an earlier Config) updated
\* in place; then combined_config["formatters"].update(...) rebinds every
\* name of this Config to this Config's own dict.
MergeFormatters(m, i) ==
    LET mine == m.docs[i].formatters
        hit(j, n) == n \in DOMAIN mine /\ n \in DOMAIN m.fowner /\ m.fowner[n] = j
    IN  [m EXCEPT
          !.docs = [j \in DOMAIN m.docs |->
                      [m.docs[j] EXCEPT !.formatters =
                          [n \in DOMAIN m.docs[j].formatters |->
                              IF hit(j, n)
                              THEN DictUpdate(m.docs[j].formatters[n], mine[n])
                              ELSE m.docs[j].formatters[n]]]],
          !.fowner = [n \in (DOMAIN m.fowner) \cup (DOMAIN mine) |->
                        IF n \in DOMAIN mine THEN i ELSE m.fowner[n]]]

\* Lines 247-253 for one handler config: a handler whose class is not the
\* QueueHandler goes to actual_handlers, a QueueHandler stays in the
\* combined config under its own name.
MergeHandler(m, h) ==
    IF h.class # QueueHandlerClass
    THEN [m EXCEPT !.actual = Append(@, h)]
    ELSE [m EXCEPT !.handlers =
            [n \in (DOMAIN m.handlers) \cup {h.name} |->
                IF n = h.name THEN h ELSE m.handlers[n]]]

RECURSIVE MergeHandlers(_, _)
MergeHandlers(m, hs) ==
    IF hs = <<>> THEN m ELSE MergeHandlers(MergeHandler(m, Head(hs)), Tail(hs))

\* Lines 231-253: the body of "for config in configs", from index i on.
RECURSIVE MergeLoop(_, _)
MergeLoop(m, i) ==
    IF i > Len(m.docs) THEN m
    ELSE LET hs == m.docs[i].handlers
         IN  MergeLoop(MergeHandlers(MergeFormatters(m, i), hs), i + 1)

\* Lines 256-269 for the loggers of the Config at index i.  A new name is
\* bound to this Config's logger dict; a known name has the handlers of its
\* dict extended and deduplicated (lines 260-265), which line 266 then
\* overwrites.  Either way the handlers become ["queue"] and the level the
\* minimum of the bound dict's level and this Config's level; all of it is
\* written into the bound dict.
MergeLoggers(m, i) ==
    LET mine == m.docs[i].loggers
        owner(n) == IF n \in DOMAIN m.lowner THEN m.lowner[n] ELSE i
        hit(j, n) == n \in DOMAIN mine /\ owner(n) = j
    IN  [m EXCEPT
          !.docs = [j \in DOMAIN m.docs |->
                      [m.docs[j] EXCEPT !.loggers =
                          [n \in DOMAIN m.docs[j].loggers |->
                              IF hit(j, n)
                              THEN [handlers |-> <<"queue">>,
                                    level |-> Min(m.docs[j].loggers[n].level,
                                                  mine[n].level)]
                              ELSE m.docs[j].loggers[n]]]],
          !.lowner = [n \in (DOMAIN m.lowner) \cup (DOMAIN mine) |->
                        owner(n)]]

\* Lines 256-269 as the code places them: after the loop over the Configs,
\* so they run once, on the loop variable's last value.
MergeLoggersAfterLoop(m) == MergeLoggers(m, Len(m.docs))

\* Lines 272-276: the QueueHandler named "queue" on the coordinator's queue.
SyntheticQueueHandler ==
    [name |-> "queue", class |-> QueueHandlerClass, level |-> 0,
     formatter |-> NoFormatter, filename |-> NoFilename, queue |-> SelfQueue]

EnsureQueueHandler(handlers) ==
    IF "queue" \in DOMAIN handlers THEN handlers
    ELSE [n \in (DOMAIN handlers) \cup {"queue"} |->
            IF n = "queue" THEN SyntheticQueueHandler ELSE handlers[n]]

EmptyCombined ==
    [formatters |-> EmptyDict, handlers |-> EmptyDict, loggers |-> EmptyDict]

\* merge_configs_and_get_handlers(*configs).  The result holds the error
\* raised ("ok" when none), the combined config, actual_handlers, and the
\* Configs as the call leaves them.  With no Config the loop variable is
\* unbound at line 256 and the call raises UnboundLocalError.
merge_configs_and_get_handlers(configs) ==
    IF configs = <<>>
    THEN [err |-> "UnboundLocalError", combined |-> EmptyCombined,
          actual_handlers |-> <<>>, configs |-> configs]
    ELSE LET m == MergeLoggersAfterLoop(MergeLoop(MergeStart(configs), 1))
         IN  [err |-> "ok",
              combined |->
                [formatters |-> [n \in DOMAIN m.fowner |->
                                    m.docs[m.fowner[n]].formatters[n]],
                 handlers |-> EnsureQueueHandler(m.handlers),
                 loggers |-> [n \in DOMAIN m.lowner |->
                                 m.docs[m.lowner[n]].loggers[n]]],
              actual_handlers |-> m.actual,
              configs |-> m.docs]


\* ------------------------------------------------------------- coordinator
\* logging.getLevelName(name) for a level given by name: the number the
\* logging module's table of names (_nameToLevel) holds for it; for a name
\* that is not in the table the string "Level <name>", which is no level
\* (Handler.setLevel and dictConfig reject it) and is written -1 here.
getLevelName(name) ==
    CASE name = "CRITICAL" -> 50
      [] name = "FATAL" -> 50
      [] name = "ERROR" -> 40
      [] name = "WARN" -> 30
      [] name = "WARNING" -> 30
      [] name = "INFO" -> 20
      [] name = "DEBUG" -> 10
      [] name = "NOTSET" -> 0
      [] OTHER -> -1

\* The documents of the package's configs directory, as (stem, extension).
Files == {<<"logging_console", "json">>, <<"logging_file", "yaml">>}

FirstExisting(stem, exts) ==
    IF exts = <<>> THEN "" ELSE
    IF <<stem, exts[1]>> \in Files THEN exts[1] ELSE
    IF Len(exts) > 1 /\ <<stem, exts[2]>> \in Files THEN exts[2] ELSE
    IF Len(exts) > 2 /\ <<stem, exts[3]>> \in Files THEN exts[3] ELSE ""

\* str.lower on the suffixes the identifiers carry.
Lower(ext) ==
    CASE ext \in {"JSON", "Json"} -> "json"
      [] ext \in {"YAML", "Yaml"} -> "yaml"
      [] ext \in {"YML", "Yml"} -> "yml"
      [] ext = "V2" -> "v2"
      [] OTHER -> ext

\* get_config_file(config_file), the identifier given as [stem, ext] (ext
\* "" when the name has no suffix): ValueError for a suffix that, in lower
\* case, is none of json, yaml, yml; the first existing of stem.json,
\* stem.yaml, stem.yml for a name without suffix; the file of the name as it
\* was given (file names are case-sensitive) when it exists; else
\* FileNotFoundError.
get_config_file(ident) ==
    IF ident.ext # "" /\ Lower(ident.ext) \notin {"json", "yaml", "yml"}
    THEN [err |-> "ValueError", stem |-> ""]
    ELSE LET found == IF ident.ext = ""
                      THEN FirstExisting(ident.stem, <<"json", "yaml", "yml">>)
                      ELSE FirstExisting(ident.stem, <<ident.ext>>)
         IN  IF found # "" THEN [err |-> "ok", stem |-> ident.stem]
             ELSE [err |-> "FileNotFoundError", stem |-> ""]

\* Line 290, handler_config["class"].split(".")[-1]: the last segment of
\* "class", whatever comes before it.
HandlerClassName(class) == class[Len(class)]

KnownHandlerClasses == {"StreamHandler", "RotatingFileHandler", "FileHandler"}

\* The files that cannot be opened for writing: their directory does not
\* exist.
Unwritable == {"no_such_dir/test.log"}

\* Lines 303-309, handler_class(**kwargs) with every key of the handler
\* config but class, formatter and level: none of the three classes takes
\* a queue; a StreamHandler takes no filename; a FileHandler or
\* RotatingFileHandler needs one and opens the file.
InstantiateError(h) ==
    IF h.queue # NoQueueKey THEN "TypeError"
    ELSE IF HandlerClassName(h.class) = "StreamHandler"
    THEN (IF h.filename # NoFilename THEN "TypeError" ELSE "ok")
    ELSE IF h.filename = NoFilename THEN "TypeError"
    ELSE IF h.filename \in Unwritable THEN "FileNotFoundError"
    ELSE "ok"

\* Lines 289-322 for one handler config: the error raised while its
\* instance is built, "ok" when none.  The checks come in the code's order:
\* the class, the instantiation, the formatter (its name in the combined
\* formatters, then its "format" key), the level.
HandlerError(h, combined) ==
    IF HandlerClassName(h.class) \notin KnownHandlerClasses THEN "ValueError"
    ELSE IF InstantiateError(h) # "ok" THEN InstantiateError(h)
    ELSE IF h.formatter # NoFormatter
            /\ (h.formatter \notin DOMAIN combined.formatters
                \/ "format" \notin DOMAIN combined.formatters[h.formatter])
         THEN "KeyError"
    ELSE IF h.level < 0 THEN "ValueError"
    ELSE "ok"

\* The handler instance of lines 303-320: its class, its level, the
\* template of its formatter, and the file it writes to.
HandlerInstance(h, combined) ==
    [name |-> h.name, class |-> HandlerClassName(h.class), level |-> h.level,
     format |-> IF h.formatter = NoFormatter THEN NoFormatter
                ELSE combined.formatters[h.formatter]["format"],
     filename |-> h.filename]

RECURSIVE FirstHandlerError(_, _)
FirstHandlerError(hs, combined) ==
    IF hs = <<>> THEN "ok"
    ELSE IF HandlerError(Head(hs), combined) # "ok"
         THEN HandlerError(Head(hs), combined)
         ELSE FirstHandlerError(Tail(hs), combined)

\* The coordinator's fields as a record: configs, the configuration the
\* logging module holds (what dictConfig was last given), queue_listener
\* (id 0: None) and configured.
NoListener == [id |-> 0, handlers |-> <<>>]

\* The id of a QueueListener that has been built and not started: its
\* _thread is None.
Unstarted == -1

NewCoordinator ==
    [configs |-> <<>>, effective |-> EmptyCombined,
     queue_listener |-> NoListener, configured |-> FALSE]

\* Line 285, logging.config.dictConfig(combined_config): it builds the
\* handlers the combined config holds, which are QueueHandlers (a handler
\* without a "queue" key gets a queue of its own).  It raises ValueError for
\* a handler whose level is no level, whose formatter is not among the
\* formatters, or that carries a key the QueueHandler does not take.
dictConfigError(combined) ==
    IF \E n \in DOMAIN combined.handlers :
          LET h == combined.handlers[n]
          IN  \/ h.level < 0
              \/ h.formatter # NoFormatter
                    /\ h.formatter \notin DOMAIN combined.formatters
              \/ h.filename # NoFilename
    THEN "ValueError" ELSE "ok"

\* logging.getLogger(name): the Logger of that name, one object per name,
\* names compared as they are written; no name and the name "root" both give
\* the root logger.  A Logger is known here by the name it carries.
getLogger(name) == IF name = "" \/ name = "root" THEN "root" ELSE name

\* apply_configs, lines 281-322: the merge (which writes into the Configs),
\* dictConfig, and the handler instances.  err is the exception raised, at
\* the point where the code raises it: a failing merge has changed nothing;
\* dictConfig and the handler loop come after the merge has written into
\* the Configs; effective is the combined config dictConfig was given,
\* whether or not it raised.  rebound tells whether dictConfig has come to
\* the loggers (a dictConfig that raises does so before), and names which
\* Loggers it has then given the handler "queue" of this combined config:
\* those the combined config names.  The handler is on the coordinator's own
\* queue, or, when a document supplied it without a queue, on a private
\* queue that no listener reads.
ApplyMerged(co, r) ==
    LET derr == dictConfigError(r.combined)
        herr == FirstHandlerError(r.actual_handlers, r.combined)
        installed == [co EXCEPT !.configs = r.configs, !.effective = r.combined]
        rebound == IF r.combined.handlers["queue"].queue = SelfQueue
                   THEN "own" ELSE "private"
        names == {getLogger(n) : n \in DOMAIN r.combined.loggers}
    IN  IF r.err # "ok"
        THEN [err |-> r.err, co |-> co, handler_instances |-> <<>>,
              rebound |-> "no", names |-> {}]
        ELSE IF derr # "ok"
        THEN [err |-> derr, co |-> installed, handler_instances |-> <<>>,
              rebound |-> "no", names |-> {}]
        ELSE IF herr # "ok"
        THEN [err |-> herr, co |-> installed, handler_instances |-> <<>>,
              rebound |-> rebound, names |-> names]
        ELSE [err |-> "ok", co |-> installed,
              handler_instances |->
                 [i \in DOMAIN r.actual_handlers |->
                     HandlerInstance(r.actual_handlers[i], r.combined)],
              rebound |-> rebound, names |-> names]

\* The element of a set of one element.
Only(S) == CHOOSE x \in S : TRUE

\* Lines 281-283: r is what the merge of self.configs returns.
ApplyPrepare(co) ==
    Only({ ApplyMerged(co, r) :
           r \in {merge_configs_and_get_handlers(co.configs)} })

\* log_file_path left out of the call (None).
NoLogFilePath == "<none>"

\* Lines 197-210: the Config load_config builds from a parsed document: a
\* log_file_path that is given replaces the filename of every handler that
\* has one; every logger is at DEBUG, every handler at the level named by
\* log_level.
LoadedConfig(stem, payload, log_file_path, log_level) ==
    Config(stem,
           payload.formatters,
           [i \in DOMAIN payload.handlers |->
               [payload.handlers[i] EXCEPT
                  !.filename = IF log_file_path # NoLogFilePath
                                  /\ @ # NoFilename
                               THEN log_file_path ELSE @,
                  !.level = getLevelName(log_level)]],
           [n \in DOMAIN payload.loggers |->
               [payload.loggers[n] EXCEPT !.level = getLevelName("DEBUG")]])

\* Config.__eq__ and list.remove: the list without its first Config of that
\* name.
RECURSIVE RemoveByName(_, _)
RemoveByName(cfgs, name) ==
    IF cfgs = <<>> THEN <<>>
    ELSE IF Head(cfgs).name = name THEN Tail(cfgs)
    ELSE <<Head(cfgs)>> \o RemoveByName(Tail(cfgs), name)

HasName(cfgs, name) == \E i \in DOMAIN cfgs : cfgs[i].name = name

\* Lines 210-215: the new Config replaces the one of its name and goes last.
ReplaceConfig(cfgs, config) ==
    Append(IF HasName(cfgs, config.name) THEN RemoveByName(cfgs, config.name)
           ELSE cfgs, config)


\* ------------------------------------------------------------------- state
VARIABLES
    \* BubLogger's fields
    configs,          \* self.configs
    queue_listener,   \* self.queue_listener
    configured,       \* self.configured
    \* the logging module's configuration: what dictConfig was last given
    effective,
    \* the QueueListener threads ever started, by listener id
    threads,
    \* the call that was made last, its outcome, and the coordinator as it
    \* was when that call began
    last,
    before,
    \* the number of calls made so far
    ncalls,
    \* the Configs of self.configs as load_config built them (history)
    pristine,
    \* TRUE while every call made so far was a load_config that succeeded
    clean,
    \* self.loggers: name -> the Logger that logging.getLogger gave for it
    loggers,
    \* self.queue: the records (and stop sentinels) waiting, oldest first
    queue,
    \* per producer thread, the number of records it has emitted
    emitted,
    \* per producer thread, the record it is logging that has passed the
    \* handlers of its Logger and has still to come to those of the root
    \* logger, or NoRecord
    sending,
    \* the thread in flush_queue: where it is, the record it holds, and the
    \* records that had been enqueued when it was called (history)
    flush,
    \* per handler name, the records its destination has received, in order
    delivered,
    \* per record taken from the queue, who took it: a listener id, or
    \* "flush" (history)
    handledBy,
    \* the thread in apply_configs (lines 279-333): where it is, the Loggers
    \* dictConfig has still to configure, and the handler instances it has
    \* built
    swap,
    \* the thread in disable_console_logging: where it is, the handlers it
    \* keeps and the listener it stops
    dcl,
    \* the main thread and the process: running, in the uncaught-exception
    \* hook, in the atexit call of _stop, or exited with a status
    proc,
    \* per Logger that a document names, the BubLogger whose queue the
    \* Logger's QueueHandler puts records on: "self", "other", "private" for
    \* a queue no listener reads, or "none" while the Logger has no handler
    bound,
    \* the BubLogger that get_instance has built, beside the one this model
    \* follows: its fields, its queue and its listener's thread
    other,
    \* the merge engine on its own: the documents given and the result
    mdocs,
    mres

coordVars == <<configs, queue_listener, configured, effective, threads,
               last, before, ncalls, pristine, clean, loggers>>
threadVars == <<swap, dcl, proc>>
dispatchVars == <<queue, emitted, sending, flush, delivered, handledBy,
                  threadVars>>
instVars == <<bound, other>>
mergeVars == <<mdocs, mres>>
vars == <<coordVars, dispatchVars, instVars, mergeVars>>

Coordinator ==
    [configs |-> configs, effective |-> effective,
     queue_listener |-> queue_listener, configured |-> configured]

\* A LogRecord, known by the producer that emitted it and its number among
\* that producer's records, with its severity; the stop sentinel (None) that
\* QueueListener.stop puts on the queue; and no record.
Record(producer, seq, level) ==
    [producer |-> producer, seq |-> seq, level |-> level]

Sentinel == Record("sentinel", 0, 0)

NoRecord == Record("none", 0, 0)

\* No BubLogger beside the one followed; and the one get_instance builds,
\* as cls() leaves it (lines 62-75): no Config, no listener, an empty queue.
\* thread is the state of its listener's thread, "none" while it has no
\* listener.
NoOther ==
    [made |-> FALSE, configs |-> <<>>, configured |-> FALSE,
     handlers |-> <<>>, thread |-> "none", rec |-> NoRecord, done |-> 0,
     queue |-> <<>>, loggers |-> EmptyDict]

NewOther == [NoOther EXCEPT !.made = TRUE]

\* The Loggers the documents name, none of them with a handler.
Unbound == [n \in {"root", "app"} |-> "none"]

NoCall == [op |-> "none", ident |-> [stem |-> "", ext |-> ""], result |-> "none"]

CoordInit ==
    /\ configs = NewCoordinator.configs
    /\ queue_listener = NewCoordinator.queue_listener
    /\ configured = NewCoordinator.configured
    /\ effective = NewCoordinator.effective
    /\ threads = <<>>
    /\ last = NoCall
    /\ before = [co |-> NewCoordinator, threads |-> <<>>]
    /\ ncalls = 0
    /\ pristine = <<>>
    /\ clean = TRUE
    /\ loggers = EmptyDict
    /\ bound = Unbound
    /\ other = NoOther

\* ---------------------------------------------------------- the dispatch
Producers == {"p1", "p2"}

\* The severities the producers log at: INFO and ERROR.
RecordLevels == {20, 40}

SinkNames == {"console", "file", "rotating", "syslog"}

FlushIdle ==
    [pc |-> "idle", rec |-> NoRecord, handlers |-> <<>>, done |-> 0,
     present |-> {}]

\* The thread in load_config or remove_config: pc is where it is; while it
\* is in dictConfig, todo holds the Loggers dictConfig has yet to configure,
\* open the Logger whose handlers it has removed and not yet replaced, to
\* the queue the new handler puts records on; herr is the exception the
\* handler loop of lines 287-322 is going to raise ("ok" for none),
\* handler_instances what it builds; target is the listener thread that
\* stop() joins.
SwapIdle ==
    [pc |-> "idle", todo |-> {}, open |-> "none", to |-> "none",
     herr |-> "ok", handler_instances |-> <<>>, target |-> 0]

\* The thread in disable_console_logging: result is "ok" once a call has
\* returned, or the exception a call has raised; closing holds the handlers
\* the loop of line 109 goes over and done the number of its turns so far.
DclIdle == [pc |-> "idle", handlers |-> <<>>, target |-> 0, calls |-> 0,
            closing |-> <<>>, done |-> 0, closed |-> {}, result |-> "none"]

\* The process: pc is where the main thread is, exc the exception that went
\* uncaught (if any), sent the number of records the hook has logged, target
\* the listener that _stop stops, status the exit status once the process
\* has exited.
ProcRunning ==
    [pc |-> "running", exc |-> "none", sent |-> 0, target |-> 0, status |-> -1]

DispatchIdle ==
    /\ queue = <<>>
    /\ emitted = [p \in Producers |-> 0]
    /\ sending = [p \in Producers |-> NoRecord]
    /\ flush = FlushIdle
    /\ delivered = [n \in SinkNames |-> <<>>]
    /\ handledBy = <<>>
    /\ swap = SwapIdle
    /\ dcl = DclIdle
    /\ proc = ProcRunning

\* ------------------------------------------------- the merge engine alone
\* The documents the merge is tried on: every combination of these
\* formatter, handler and logger sections.
MergeFormatterSections ==
    { EmptyDict,
      [n \in {"A"} |-> [k \in {"format"} |-> "f1"]],
      [n \in {"A", "B"} |->
          IF n = "A" THEN [k \in {"format", "datefmt"} |->
                              IF k = "format" THEN "f2" ELSE "d2"]
          ELSE [k \in {"format"} |-> "f3"]] }

MergeHandlerSections ==
    { <<>>,
      << [name |-> "console", class |-> <<"logging", "StreamHandler">>,
          level |-> 10, formatter |-> "A", filename |-> NoFilename,
          queue |-> NoQueueKey] >>,
      << [name |-> "file", class |-> <<"logging", "FileHandler">>,
          level |-> 40, formatter |-> NoFormatter, filename |-> "app.log",
          queue |-> NoQueueKey],
         [name |-> "relay", class |-> QueueHandlerClass, level |-> 0,
          formatter |-> NoFormatter, filename |-> NoFilename,
          queue |-> NoQueueKey] >> }

MergeLoggerSections ==
    { EmptyDict,
      [n \in {"X"} |-> [handlers |-> <<"console">>, level |-> 10]],
      [n \in {"X"} |-> [handlers |-> <<"file">>, level |-> 20]],
      [n \in {"X", "Y"} |->
          [handlers |-> <<"file">>, level |-> IF n = "X" THEN 30 ELSE 20]] }

MergeSections ==
    [formatters : MergeFormatterSections, handlers : MergeHandlerSections,
     loggers : MergeLoggerSections]

DocNames == <<"d1", "d2", "d3", "d4">>

NoResult ==
    [err |-> "pending", combined |-> EmptyCombined, actual_handlers |-> <<>>,
     configs |-> <<>>]

MergeIdle == mdocs = <<>> /\ mres = NoResult

MergeInit ==
    /\ \E n \in 0..MaxDocs :
         \E ss \in [1..n -> MergeSections] :
            mdocs = [i \in 1..n |->
                        Config(DocNames[i], ss[i].formatters, ss[i].handlers,
                               ss[i].loggers)]
    /\ mres = NoResult
    /\ CoordInit
    /\ DispatchIdle

\* One call of merge_configs_and_get_handlers(*mdocs).
MergeCall ==
    /\ mres.err = "pending"
    /\ mres' = merge_configs_and_get_handlers(mdocs)
    /\ UNCHANGED <<mdocs, coordVars, dispatchVars, instVars>>

NextMerge == MergeCall

SpecMerge == MergeInit /\ [][NextMerge]_vars

MergeDone == mres.err # "pending"

\* The documents of mdocs that define logger n.
DefiningDocs(n) == {i \in DOMAIN mdocs : n \in DOMAIN mdocs[i].loggers}

MinLevel(n) ==
    CHOOSE l \in {mdocs[i].loggers[n].level : i \in DefiningDocs(n)} :
        \A i \in DefiningDocs(n) : l <= mdocs[i].loggers[n].level

\* C6: for every logger name defined by more than one of the merged
\* documents, the merged logger's severity is the minimum of the severities
\* the documents give it, and its sink list is exactly the relay sink.
C6_MinSeverityAcrossDocuments ==
    MergeDone =>
        \A n \in {"X", "Y"} :
            Cardinality(DefiningDocs(n)) > 1 =>
                /\ mres.err = "ok"
                /\ n \in DOMAIN mres.combined.loggers
                /\ mres.combined.loggers[n].level = MinLevel(n)
                /\ mres.combined.loggers[n].handlers = <<"queue">>

\* C10: merging an empty list of documents succeeds and yields an effective
\* configuration whose only sink is the synthetic relay, with no loggers and
\* an empty list of real sinks.
C10_EmptyMergeYieldsRelayOnly ==
    (MergeDone /\ mdocs = <<>>) =>
        /\ mres.err = "ok"
        /\ DOMAIN mres.combined.handlers = {"queue"}
        /\ mres.combined.loggers = EmptyDict
        /\ mres.actual_handlers = <<>>

\* ------------------------------------------- the coordinator, call by call
\* A listener thread: waiting on the queue, handling the record rec (done
\* is the number of its handlers it has offered the record to), exited (it
\* has taken a sentinel), or joined (QueueListener.stop has joined it and
\* cleared the listener's _thread).
ThreadWaiting(handlers) ==
    [state |-> "waiting", rec |-> NoRecord, handlers |-> handlers, done |-> 0]

\* The identifiers the calls are tried on: two documents of the package, a
\* name the package does not hold, a name with a dot in it, whose part
\* after the dot get_config_file reads as an extension, and the name of a
\* document with its extension in upper case.
Identifiers ==
    { [stem |-> "logging_console", ext |-> ""],
      [stem |-> "logging_file", ext |-> ""],
      [stem |-> "missing", ext |-> ""],
      [stem |-> "app", ext |-> "v2"],
      [stem |-> "logging_console", ext |-> "JSON"] }

\* What a document may hold when it is read (its handlers' and loggers'
\* levels are set by load_config): a console document, a file document that
\* defines the same formatter name with one more key, a document without
\* formatters, one whose handler class has no adapter, and one whose handler
\* names a formatter that no document defines.
ConsolePayload ==
    [formatters |-> [n \in {"standard"} |-> [k \in {"format"} |-> "m"]],
     handlers |-> << [name |-> "console",
                      class |-> <<"logging", "StreamHandler">>,
                      level |-> 0, formatter |-> "standard",
                      filename |-> NoFilename, queue |-> NoQueueKey] >>,
     loggers |-> [n \in {"root"} |-> [handlers |-> <<"console">>, level |-> 0]]]

FilePayload ==
    [formatters |-> [n \in {"standard"} |->
                        [k \in {"format", "datefmt"} |->
                            IF k = "format" THEN "t m" ELSE "hm"]],
     handlers |-> << [name |-> "file",
                      class |-> <<"logging", "FileHandler">>,
                      level |-> 0, formatter |-> "standard",
                      filename |-> "app.log", queue |-> NoQueueKey] >>,
     loggers |-> [n \in {"root", "app"} |->
                     [handlers |-> <<"file">>, level |-> 0]]]

RotatingPayload ==
    [formatters |-> EmptyDict,
     handlers |-> << [name |-> "rotating",
                      class |-> <<"logging", "handlers", "RotatingFileHandler">>,
                      level |-> 0, formatter |-> NoFormatter,
                      filename |-> "rotating.log", queue |-> NoQueueKey] >>,
     loggers |-> [n \in {"app"} |-> [handlers |-> <<"rotating">>, level |-> 0]]]

UnknownClassPayload ==
    [formatters |-> EmptyDict,
     handlers |-> << [name |-> "syslog",
                      class |-> <<"logging", "handlers", "SysLogHandler">>,
                      level |-> 0, formatter |-> NoFormatter,
                      filename |-> NoFilename, queue |-> NoQueueKey] >>,
     loggers |-> EmptyDict]

MissingFormatterPayload ==
    [formatters |-> EmptyDict,
     handlers |-> << [name |-> "console",
                      class |-> <<"logging", "StreamHandler">>,
                      level |-> 0, formatter |-> "brief",
                      filename |-> NoFilename, queue |-> NoQueueKey] >>,
     loggers |-> EmptyDict]

Payloads ==
    { ConsolePayload, FilePayload, RotatingPayload, UnknownClassPayload,
      MissingFormatterPayload }

LogLevels == {"DEBUG", "ERROR", "VERBOSE"}

\* The values of log_file_path: left out, and a file in a directory that
\* does not exist.
LogFilePaths == {NoLogFilePath, "no_such_dir/test.log"}

\* The coordinator with what the calls change of it, as one value: its
\* fields, its listener threads, the history of its loads, and the queue
\* the root logger is bound to.
Now ==
    [configs |-> configs, effective |-> effective,
     queue_listener |-> queue_listener, configured |-> configured,
     threads |-> threads, pristine |-> pristine, clean |-> clean,
     bound |-> bound]

Becomes(st) ==
    /\ configs' = st.configs
    /\ effective' = st.effective
    /\ queue_listener' = st.queue_listener
    /\ configured' = st.configured
    /\ threads' = st.threads
    /\ pristine' = st.pristine
    /\ clean' = st.clean
    /\ bound' = st.bound

\* The coordinator's fields of st, as ApplyPrepare takes them.
CoordinatorOf(st) ==
    [configs |-> st.configs, effective |-> st.effective,
     queue_listener |-> st.queue_listener, configured |-> st.configured]

\* Lines 324-333 in one step, on the coordinator st: the listener in place
\* (if any) is stopped, so its thread exits; a new listener on the handler
\* instances is started; the coordinator is configured.
Swapped(st, handler_instances) ==
    LET stopped == [i \in DOMAIN st.threads |->
                       IF i = st.queue_listener.id
                       THEN [st.threads[i] EXCEPT !.state = "joined"]
                       ELSE st.threads[i]]
    IN  [st EXCEPT
           !.threads = Append(stopped, ThreadWaiting(handler_instances)),
           !.queue_listener = [id |-> Len(st.threads) + 1,
                               handlers |-> handler_instances],
           !.configured = TRUE]

SwapListener(handler_instances) ==
    LET st == Swapped(Now, handler_instances)
    IN  /\ threads' = st.threads
        /\ queue_listener' = st.queue_listener
        /\ configured' = st.configured

\* The queues the Loggers are bound to after the dictConfig of apply_configs
\* on the BubLogger own ("self" or "other") has run with p: a Logger the
\* combined config names has lost the handlers it had and got the handler
\* "queue"; the others keep theirs.
Rebound(was, p, own) ==
    [n \in DOMAIN was |->
        IF p.rebound = "no" \/ n \notin p.names THEN was[n]
        ELSE IF p.rebound = "own" THEN own ELSE "private"]

\* What a call leaves behind: co is the coordinator up to line 322 of
\* apply_configs, p.err the exception raised up to there.
Finish(op, ident, p) ==
    /\ configs' = p.co.configs
    /\ effective' = p.co.effective
    /\ bound' = Rebound(bound, p, "self")
    /\ IF p.err = "ok" THEN SwapListener(p.handler_instances)
       ELSE UNCHANGED <<queue_listener, configured, threads>>
    /\ last' = [op |-> op, ident |-> ident, result |-> p.err]
    /\ before' = [co |-> Coordinator, threads |-> threads]

\* A call that raised before it touched the coordinator.
Raise(op, ident, err) ==
    /\ last' = [op |-> op, ident |-> ident, result |-> err]
    /\ before' = [co |-> Coordinator, threads |-> threads]
    /\ clean' = FALSE
    /\ UNCHANGED <<configs, queue_listener, configured, effective, threads,
                   pristine, bound>>

\* load_config(config_file, log_file_path, log_level), lines 181-216, on the
\* coordinator st, the document read from the file being payload: the
\* exception raised ("ok" when none) and the coordinator it leaves.
load_config_on(st, ident, payload, log_file_path, log_level) ==
    LET f == get_config_file(ident)
        config == LoadedConfig(f.stem, payload, log_file_path, log_level)
    IN  IF f.err # "ok"
        THEN [err |-> f.err, st |-> [st EXCEPT !.clean = FALSE]]
        ELSE Only({ [err |-> p.err,
                     st |-> [(IF p.err = "ok"
                              THEN Swapped(st, p.handler_instances)
                              ELSE st) EXCEPT
                               !.configs = p.co.configs,
                               !.effective = p.co.effective,
                               !.bound = Rebound(@, p, "self"),
                               !.pristine = ReplaceConfig(@, config),
                               !.clean = (@ /\ p.err = "ok")]] :
                    p \in {ApplyPrepare([CoordinatorOf(st) EXCEPT
                              !.configs = ReplaceConfig(st.configs, config)])} })

\* load_config(config_file, log_file_path, log_level) called on the
\* coordinator.
load_config(ident, payload, log_file_path, log_level) ==
    \E r \in {load_config_on(Now, ident, payload, log_file_path, log_level)} :
        /\ ncalls < MaxCalls
        /\ ncalls' = ncalls + 1
        /\ Becomes(r.st)
        /\ last' = [op |-> "load_config", ident |-> ident, result |-> r.err]
        /\ before' = [co |-> Coordinator, threads |-> threads]
        /\ UNCHANGED <<loggers, dispatchVars, other, mergeVars>>

\* remove_config with apply_configs called whether or not the document was
\* found, the not-found error raised after it.
remove_config_applies_anyway(ident) ==
    LET f == get_config_file(ident)
        p == ApplyPrepare([Coordinator EXCEPT
                             !.configs = RemoveByName(configs, f.stem)])
    IN  /\ ncalls < MaxCalls
        /\ ncalls' = ncalls + 1
        /\ IF f.err # "ok" THEN Raise("remove_config", ident, f.err)
           ELSE /\ Finish("remove_config", ident,
                          IF HasName(configs, f.stem) \/ p.err # "ok" THEN p
                          ELSE [p EXCEPT !.err = "ok"])
                /\ pristine' = RemoveByName(pristine, f.stem)
                /\ clean' = FALSE
        /\ UNCHANGED <<loggers, dispatchVars, other, mergeVars>>

\* remove_config(config_file), lines 345-364.
remove_config(ident) ==
    LET f == get_config_file(ident)
        p == ApplyPrepare([Coordinator EXCEPT
                             !.configs = RemoveByName(configs, f.stem)])
    IN  /\ ncalls < MaxCalls
        /\ ncalls' = ncalls + 1
        /\ IF f.err # "ok" THEN Raise("remove_config", ident, f.err)
           ELSE IF ~HasName(configs, f.stem)
           THEN Raise("remove_config", ident, "FileNotFoundError")
           ELSE /\ Finish("remove_config", ident, p)
                /\ pristine' = RemoveByName(pristine, f.stem)
                /\ clean' = FALSE
        /\ UNCHANGED <<loggers, dispatchVars, other, mergeVars>>

\* The calls of load_config that are tried: every document content and
\* every level on the two identifiers the package holds; a log_file_path on
\* the file document; and the identifiers get_config_file rejects, for
\* which no document is read.
LoadArgs ==
    [ident : {i \in Identifiers : get_config_file(i).err = "ok"},
     payload : Payloads, log_file_path : {NoLogFilePath}, log_level : LogLevels]
    \cup [ident : {[stem |-> "logging_file", ext |-> ""]},
          payload : {FilePayload}, log_file_path : LogFilePaths,
          log_level : LogLevels]
    \cup [ident : {i \in Identifiers : get_config_file(i).err # "ok"},
          payload : {ConsolePayload}, log_file_path : {NoLogFilePath},
          log_level : {"DEBUG"}]

LoadConfig ==
    \E a \in LoadArgs :
        load_config(a.ident, a.payload, a.log_file_path, a.log_level)

RemoveConfig == \E ident \in Identifiers : remove_config(ident)

ConsoleIdent == [stem |-> "logging_console", ext |-> ""]
FileIdent == [stem |-> "logging_file", ext |-> ""]

\* ----------------------------------------------------------- load_configs
\* load_configs(configs), lines 131-132, on the coordinator st: load_config
\* for each entry in turn; the first that raises ends the call.  loaded is
\* the number of entries load_config was called for.
RECURSIVE LoadEach(_, _, _)
LoadEach(st, entries, k) ==
    IF k > Len(entries) THEN [err |-> "ok", st |-> st, loaded |-> k - 1]
    ELSE Only({ IF r.err # "ok" THEN [err |-> r.err, st |-> r.st, loaded |-> k]
                ELSE LoadEach(r.st, entries, k + 1) :
                r \in {load_config_on(st, entries[k].ident, entries[k].payload,
                                      entries[k].log_file_path,
                                      entries[k].log_level)} })

\* load_configs(entries) called on the coordinator.  last names the entry
\* load_config was called for last; the calls of load_config it makes are
\* counted.
load_configs(entries) ==
    \E r \in {LoadEach(Now, entries, 1)} :
        /\ ncalls + Len(entries) <= MaxCalls
        /\ ncalls' = ncalls + r.loaded
        /\ Becomes(r.st)
        /\ last' = [op |-> "load_configs", ident |-> entries[r.loaded].ident,
                    result |-> r.err]
        /\ before' = [co |-> Coordinator, threads |-> threads]
        /\ UNCHANGED <<loggers, dispatchVars, other, mergeVars>>

LoadEntry(ident, payload, log_level) ==
    [ident |-> ident, payload |-> payload, log_file_path |-> NoLogFilePath,
     log_level |-> log_level]

\* The lists load_configs is tried on: the default of its parameter (the
\* console document at DEBUG), the console and the file document, a list
\* whose first entry names no document, and a list whose first entry is
\* loaded at a level the logging module does not know.
ConfigLists ==
    { << LoadEntry(ConsoleIdent, ConsolePayload, "DEBUG") >>,
      << LoadEntry(ConsoleIdent, ConsolePayload, "DEBUG"),
         LoadEntry(FileIdent, FilePayload, "ERROR") >>,
      << LoadEntry([stem |-> "missing", ext |-> ""], ConsolePayload, "DEBUG"),
         LoadEntry(ConsoleIdent, ConsolePayload, "DEBUG") >>,
      << LoadEntry(FileIdent, FilePayload, "VERBOSE"),
         LoadEntry(ConsoleIdent, ConsolePayload, "DEBUG") >> }

LoadConfigs == \E entries \in ConfigLists : load_configs(entries)

\* ----------------------------------------------------------- get_instance
\* config_file left out of the call (None).
NoConfigFile == [stem |-> "", ext |-> ""]

\* get_instance(config_file, log_file_path, log_level), lines 436-448:
\* cls() builds another BubLogger, with a queue of its own; its __init__
\* registers its _stop with atexit and makes its hook sys.excepthook.  With a
\* config_file, load_config is called on it: dictConfig is given its combined
\* config, which binds the root logger to its queue, and its listener is
\* started on its handlers.  The coordinator's own fields are left alone.
\* The model follows one such BubLogger; no call is made on it afterwards.
get_instance(ident, payload, log_file_path, log_level) ==
    LET f == get_config_file(ident)
        config == LoadedConfig(f.stem, payload, log_file_path, log_level)
        p == ApplyPrepare([NewCoordinator EXCEPT !.configs = <<config>>,
                                                 !.effective = effective])
        loads == ident # NoConfigFile /\ f.err = "ok"
        err == IF ident = NoConfigFile THEN "ok"
               ELSE IF f.err # "ok" THEN f.err ELSE p.err
    IN  /\ ~other.made
        /\ ncalls < MaxCalls
        /\ ncalls' = ncalls + 1
        /\ other' = IF ~loads THEN NewOther
                    ELSE [NewOther EXCEPT
                            !.configs = p.co.configs,
                            !.configured = (p.err = "ok"),
                            !.handlers = p.handler_instances,
                            !.thread = IF p.err = "ok" THEN "waiting"
                                       ELSE "none"]
        /\ effective' = IF loads THEN p.co.effective ELSE effective
        /\ bound' = IF loads THEN Rebound(bound, p, "other") ELSE bound
        /\ last' = [op |-> "get_instance", ident |-> ident, result |-> err]
        /\ before' = [co |-> Coordinator, threads |-> threads]
        /\ clean' = FALSE
        /\ UNCHANGED <<configs, queue_listener, configured, threads, pristine,
                       loggers, dispatchVars, mergeVars>>

\* The calls of get_instance that are tried: without a config_file, with
\* the console and with the file document, with a document whose handler
\* class has no adapter, and with a name the package does not hold.
InstanceArgs ==
    { LoadEntry(NoConfigFile, ConsolePayload, "DEBUG"),
      LoadEntry(ConsoleIdent, ConsolePayload, "DEBUG"),
      LoadEntry(FileIdent, FilePayload, "ERROR"),
      LoadEntry(FileIdent, UnknownClassPayload, "DEBUG"),
      LoadEntry([stem |-> "missing", ext |-> ""], ConsolePayload, "DEBUG") }

GetInstance ==
    \E a \in InstanceArgs :
        get_instance(a.ident, a.payload, a.log_file_path, a.log_level)

Init == CoordInit /\ DispatchIdle /\ MergeIdle

Next == LoadConfig \/ LoadConfigs \/ RemoveConfig \/ GetInstance

Spec == Init /\ [][Next]_vars

\* ------------------------------------------------ claims on the coordinator
Failed(op) == last.op = op /\ last.result # "ok"

\* The coordinator and its listener threads are as they were when the last
\* call began.
Untouched ==
    /\ configs = before.co.configs
    /\ effective = before.co.effective
    /\ queue_listener = before.co.queue_listener
    /\ threads = before.threads

\* C5: a failing load_config leaves the coordinator as it was before the
\* call: the list of loaded documents, the logger-visible configuration and
\* the running relay's sinks are unchanged.
C5_FailedLoadChangesNothing ==
    Failed("load_config") => Untouched

\* The handler configs a listener is to be bound to: the handlers of the
\* documents that are not of the relay kind, in document order.
RECURSIVE RealSinks(_)
RealSinks(cfgs) ==
    IF cfgs = <<>> THEN <<>>
    ELSE SelectSeq(Head(cfgs).handlers, LAMBDA h : h.class # QueueHandlerClass)
         \o RealSinks(Tail(cfgs))

BoundTo(listener, sinks) ==
    /\ Len(listener.handlers) = Len(sinks)
    /\ \A i \in DOMAIN sinks :
         /\ listener.handlers[i].name = sinks[i].name
         /\ listener.handlers[i].class = HandlerClassName(sinks[i].class)
         /\ listener.handlers[i].level = sinks[i].level

Running(listener) ==
    /\ listener.id \in DOMAIN threads
    /\ threads[listener.id].state \in {"waiting", "handling"}

\* The last call was a remove_config of a document that was loaded, by an
\* identifier that names its file, made while a relay was running, and every
\* document that remains is one a listener can be built from.
RemovedLoaded ==
    /\ last.op = "remove_config"
    /\ get_config_file(last.ident).err = "ok"
    /\ HasName(before.co.configs, last.ident.stem)
    /\ before.co.queue_listener.id \in DOMAIN before.threads
    /\ before.threads[before.co.queue_listener.id].state
          \in {"waiting", "handling"}
    /\ \A i \in DOMAIN configs :
          FirstHandlerError(RealSinks(<<configs[i]>>), effective) = "ok"

\* C7: after remove_config of a loaded identifier the running relay is
\* bound to exactly the sinks of the documents that remain loaded, and to
\* no sink of the removed document, also when the removed document is the
\* only one loaded.
C7_RemoveRebindsRelay ==
    RemovedLoaded =>
        /\ last.result = "ok"
        /\ ~HasName(configs, last.ident.stem)
        /\ Running(queue_listener)
        /\ queue_listener.id # before.co.queue_listener.id
        /\ BoundTo(queue_listener, RealSinks(configs))

\* The last call was a remove_config of an identifier that names no loaded
\* document.
RemovedUnknown ==
    /\ last.op = "remove_config"
    /\ ~HasName(before.co.configs, last.ident.stem)

\* C8 as claimed: remove_config of an identifier that is not among the
\* loaded documents fails with a not-found error and changes nothing.
C8_RemoveUnknownNotFound ==
    RemovedUnknown => (last.result = "FileNotFoundError" /\ Untouched)

\* C8 as amended: remove_config of an identifier that is not among the
\* loaded documents fails, with FileNotFoundError, or with ValueError when
\* the identifier has a suffix other than json, yaml, yml (in upper or
\* lower case), and changes nothing: the document list is unchanged and the
\* relay is neither stopped nor restarted.
C8_RemoveUnknownFails ==
    RemovedUnknown =>
        /\ last.result = (IF Lower(last.ident.ext) \in {"", "json", "yaml", "yml"}
                          THEN "FileNotFoundError" ELSE "ValueError")
        /\ Untouched

C8_Witness ==
    /\ RemovedUnknown
    /\ last.ident.stem = "logging_file"
    /\ last.result = "FileNotFoundError"
    /\ Len(configs) = 1
    /\ Running(queue_listener)

\* C9: after any sequence of successful loads the document list holds
\* exactly one document per loaded identity, and the effective configuration
\* is the one the latest payloads of those identities give: loading an
\* identifier again replaces what its earlier payload contributed.
C9_ReloadReplaces ==
    (clean /\ last.op = "load_config") =>
        /\ \A i, j \in DOMAIN configs :
              configs[i].name = configs[j].name => i = j
        /\ [i \in DOMAIN configs |-> configs[i].name]
              = [i \in DOMAIN pristine |-> pristine[i].name]
        /\ effective = merge_configs_and_get_handlers(pristine).combined

\* ------------------------------------------- producers, relay, flush_queue

\* The coordinator after load_config(ident, log_level=log_level) up to line
\* 322, on a coordinator co.
Loaded(co, ident, payload, log_level) ==
    ApplyPrepare([co EXCEPT !.configs =
        ReplaceConfig(co.configs,
                      LoadedConfig(get_config_file(ident).stem, payload,
                                   NoLogFilePath, log_level))])

\* The coordinator after load_config("logging_console", log_level=lv1) and
\* load_config("logging_file", log_level=lv2): listener 2 is running, bound
\* to the console handler at lv1 and the file handler at lv2.
TwoLoadsInit(lv1, lv2) ==
    LET p1 == Loaded(NewCoordinator, ConsoleIdent, ConsolePayload, lv1)
        co1 == [p1.co EXCEPT
                  !.queue_listener = [id |-> 1, handlers |-> p1.handler_instances],
                  !.configured = TRUE]
        p2 == Loaded(co1, FileIdent, FilePayload, lv2)
    IN  /\ configs = p2.co.configs
        /\ effective = p2.co.effective
        /\ queue_listener = [id |-> 2, handlers |-> p2.handler_instances]
        /\ configured = TRUE
        /\ threads = << [ThreadWaiting(p1.handler_instances)
                            EXCEPT !.state = "joined"],
                        ThreadWaiting(p2.handler_instances) >>
        /\ last = [op |-> "load_config", ident |-> FileIdent, result |-> "ok"]
        /\ before = [co |-> co1,
                     threads |-> <<ThreadWaiting(p1.handler_instances)>>]
        /\ ncalls = 2
        /\ pristine = << LoadedConfig("logging_console", ConsolePayload, NoLogFilePath,
                                      lv1),
                         LoadedConfig("logging_file", FilePayload, NoLogFilePath, lv2) >>
        /\ clean = TRUE
        /\ loggers = EmptyDict
        /\ bound = Rebound(Rebound(Unbound, p1, "self"), p2, "self")
        /\ other = NoOther

\* QueueHandler.enqueue, self.queue.put_nowait(record), by a QueueHandler
\* whose queue is that of BubLogger b: self.queue, or the queue of the
\* BubLogger that get_instance built.  A Logger without a QueueHandler
\* ("none"), or with one on a queue of its own ("private"), brings the
\* record to no listener.
Enqueue(b, rec) ==
    /\ queue' = IF b = "self" THEN Append(queue, rec) ELSE queue
    /\ other' = IF b = "other" THEN [other EXCEPT !.queue = Append(@, rec)]
                ELSE other
    /\ bound' = bound

\* Logger.log by a producer thread, at one of the given levels, on the root
\* logger or on a Logger that a document names.  Logger.callHandlers goes
\* over the handlers the Logger has now; a Logger that is not the root
\* logger hands the record on to its parent afterwards.
Emit(p, levels) ==
    /\ sending[p] = NoRecord
    /\ emitted[p] < MaxEmits
    /\ emitted["p1"] + emitted["p2"] < MaxRecords
    /\ \E level \in levels, name \in DOMAIN bound :
          \E rec \in {Record(p, emitted[p] + 1, level)} :
             /\ Enqueue(bound[name], rec)
             /\ sending' = [sending EXCEPT ![p] =
                               IF name = "root" THEN NoRecord ELSE rec]
    /\ emitted' = [emitted EXCEPT ![p] = @ + 1]
    /\ UNCHANGED <<flush, delivered, handledBy, threadVars, coordVars,
                   mergeVars>>

\* Logger.callHandlers, c = c.parent: the record that has passed the
\* handlers of its own Logger comes to those the root logger has now.  So a
\* record logged on a Logger that a document names, while the root logger
\* is bound too, is put on the queue twice, and other threads may put
\* records or a sentinel on the queue between the two.
Propagate(p) ==
    /\ sending[p] # NoRecord
    /\ Enqueue(bound["root"], sending[p])
    /\ sending' = [sending EXCEPT ![p] = NoRecord]
    /\ UNCHANGED <<emitted, flush, delivered, handledBy, threadVars,
                   coordVars, mergeVars>>

\* One record offered to one handler.  The QueueListener, built with
\* respect_handler_level=True, passes it to the handler only if the
\* record's level is at least the handler's; Handler.handle itself compares
\* no levels.  Each handler's destination is known by the handler's name.
Deliver(del, h, rec, respect_handler_level) ==
    IF (~respect_handler_level) \/ rec.level >= h.level
    THEN [del EXCEPT ![h.name] = Append(@, rec)]
    ELSE del

\* QueueListener._monitor of listener i: the blocking dequeue.  The sentinel
\* ends the thread.
RelayDequeue(i) ==
    /\ threads[i].state = "waiting"
    /\ queue # <<>>
    /\ queue' = Tail(queue)
    /\ threads' = [threads EXCEPT ![i] =
                      IF Head(queue) = Sentinel
                      THEN [@ EXCEPT !.state = "exited"]
                      ELSE [@ EXCEPT !.state = "handling", !.rec = Head(queue)]]
    /\ UNCHANGED <<emitted, sending, flush, delivered, handledBy, threadVars, instVars, mergeVars,
                   configs, queue_listener, configured, effective, last,
                   before, ncalls, pristine, clean, loggers>>

\* QueueListener.handle of listener i on the record it holds: one turn of
\* its loop over the handlers, each handler being called under that
\* handler's own lock; with the last handler the record is handled and the
\* thread goes back to the queue.
RelayHandle(i) ==
    /\ threads[i].state = "handling"
    /\ \E t \in {threads[i]} :
          /\ delivered' = IF t.done < Len(t.handlers)
                          THEN Deliver(delivered, t.handlers[t.done + 1], t.rec,
                                       TRUE)
                          ELSE delivered
          /\ IF t.done + 1 < Len(t.handlers)
             THEN /\ threads' = [threads EXCEPT ![i].done = @ + 1]
                  /\ handledBy' = handledBy
             ELSE /\ threads' = [threads EXCEPT ![i] = ThreadWaiting(t.handlers)]
                  /\ handledBy' = Append(handledBy, [rec |-> t.rec, by |-> i])
    /\ UNCHANGED <<queue, emitted, sending, flush, threadVars, instVars, mergeVars,
                   configs, queue_listener, configured, effective, last,
                   before, ncalls, pristine, clean, loggers>>

Relay == \E i \in DOMAIN threads : RelayDequeue(i) \/ RelayHandle(i)

\* The records emitted so far that came onto a queue with a listener: on
\* the queue, held by a listener or by flush_queue, or handled.
EmittedRecords ==
    ({queue[i] : i \in DOMAIN queue}
        \cup {other.queue[i] : i \in DOMAIN other.queue}
        \cup {threads[i].rec : i \in DOMAIN threads}
        \cup {handledBy[i].rec : i \in DOMAIN handledBy}
        \cup {flush.rec, other.rec}) \ {Sentinel, NoRecord}

\* flush_queue is called.
FlushCall ==
    /\ flush.pc = "idle"
    /\ flush' = [FlushIdle EXCEPT !.pc = "check", !.present = EmittedRecords]
    /\ UNCHANGED <<queue, emitted, sending, delivered, handledBy, threadVars,
                   coordVars, instVars, mergeVars>>

\* Line 407: while not self.queue.empty().
FlushCheck ==
    /\ flush.pc = "check"
    /\ flush' = [flush EXCEPT !.pc = IF queue = <<>> THEN "done" ELSE "get"]
    /\ UNCHANGED <<queue, emitted, sending, delivered, handledBy, threadVars,
                   coordVars, instVars, mergeVars>>

\* Line 408: record = self.queue.get(), which blocks while the queue is
\* empty.
FlushGet ==
    /\ flush.pc = "get"
    /\ queue # <<>>
    /\ queue' = Tail(queue)
    /\ flush' = [flush EXCEPT !.pc = "handle", !.rec = Head(queue)]
    /\ UNCHANGED <<emitted, sending, delivered, handledBy, threadVars, coordVars, instVars, mergeVars>>

\* Line 409, for handler in self.queue_listener.handlers: the handlers of
\* the listener in place now are what the loop goes over.  With no listener
\* the attribute access raises.  A sentinel taken from the queue is None: no
\* handler emits it, and the loop leaves nothing behind.
FlushLoop ==
    /\ flush.pc = "handle"
    /\ flush' = IF queue_listener.id = 0
                THEN [flush EXCEPT !.pc = "raised"]
                ELSE IF flush.rec = Sentinel
                THEN [flush EXCEPT !.pc = "check", !.rec = NoRecord]
                ELSE [flush EXCEPT !.pc = "each",
                                   !.handlers = queue_listener.handlers]
    /\ UNCHANGED <<queue, emitted, sending, delivered, handledBy, threadVars,
                   coordVars, instVars, mergeVars>>

\* Line 410, handler.handle(record): one turn of the loop, whatever the
\* handler's level; after the last handler the loop of line 407 goes on.
FlushHandle ==
    /\ flush.pc = "each"
    /\ delivered' = IF flush.done < Len(flush.handlers)
                    THEN Deliver(delivered, flush.handlers[flush.done + 1],
                                 flush.rec, FALSE)
                    ELSE delivered
    /\ IF flush.done + 1 < Len(flush.handlers)
       THEN /\ flush' = [flush EXCEPT !.done = @ + 1]
            /\ handledBy' = handledBy
       ELSE /\ flush' = [flush EXCEPT !.pc = "check", !.rec = NoRecord,
                                      !.handlers = <<>>, !.done = 0]
            /\ handledBy' = Append(handledBy, [rec |-> flush.rec, by |-> "flush"])
    /\ UNCHANGED <<queue, emitted, sending, threadVars, coordVars, instVars, mergeVars>>

FlushQueue == FlushCall \/ FlushCheck \/ FlushGet \/ FlushLoop \/ FlushHandle

Producer == \E p \in Producers : Emit(p, RecordLevels) \/ Propagate(p)

DispatchInit ==
    /\ \E lv1, lv2 \in {"DEBUG", "ERROR"} : TwoLoadsInit(lv1, lv2)
    /\ DispatchIdle
    /\ MergeIdle

NextDispatch == Producer \/ Relay \/ FlushQueue

\* Producer threads, the running relay and one call of flush_queue, on a
\* coordinator configured by two loads.
SpecDispatch == DispatchInit /\ [][NextDispatch]_vars

\* ------------------------------------------------ the swap of the listener
\* The calls tried while records flow: a reload of logging_file with a
\* rotating-file document (the listener is swapped), a reload with a
\* document whose handler class is unknown (apply_configs raises before the
\* swap), and the removal of either document.
SwapPayloads == {RotatingPayload, UnknownClassPayload}

\* A call of load_config or remove_config up to line 285 of apply_configs,
\* where dictConfig has built the handlers of the combined config and comes
\* to its loggers; p is what ApplyPrepare gives.  An exception raised by the
\* merge or by dictConfig ends the call here.
BeginSwap(op, ident, p) ==
    /\ swap.pc = "idle"
    /\ ncalls < MaxCalls
    /\ ncalls' = ncalls + 1
    /\ configs' = p.co.configs
    /\ effective' = p.co.effective
    /\ before' = [co |-> Coordinator, threads |-> threads]
    /\ last' = [op |-> op, ident |-> ident,
                result |-> IF p.rebound = "no" THEN p.err ELSE "running"]
    /\ swap' = IF p.rebound = "no" THEN SwapIdle
               ELSE [SwapIdle EXCEPT
                       !.pc = "dictConfig",
                       !.todo = p.names \cap DOMAIN bound,
                       !.to = IF p.rebound = "own" THEN "self" ELSE "private",
                       !.herr = p.err,
                       !.handler_instances = p.handler_instances]
    /\ UNCHANGED <<queue_listener, configured, threads, queue, emitted, sending, flush,
                   delivered, handledBy, dcl, proc, loggers, instVars,
                   mergeVars>>

LoadBegin ==
    \E payload \in SwapPayloads :
        \E p \in {Loaded(Coordinator, FileIdent, payload, "ERROR")} :
            /\ BeginSwap("load_config", FileIdent, p)
            /\ pristine' = ReplaceConfig(pristine,
                              LoadedConfig("logging_file", payload,
                                           NoLogFilePath, "ERROR"))
            /\ clean' = (clean /\ payload = RotatingPayload)

RemoveBegin ==
    \E ident \in {ConsoleIdent, FileIdent} :
        \E p \in {ApplyPrepare([Coordinator EXCEPT
                       !.configs = RemoveByName(configs, ident.stem)])} :
            /\ HasName(configs, ident.stem)
            /\ BeginSwap("remove_config", ident, p)
            /\ pristine' = RemoveByName(pristine, ident.stem)
            /\ clean' = FALSE

\* dictConfig at one Logger that the combined config names (the Loggers are
\* taken in the order of the document's keys, which the model does not
\* keep), first half: the handlers the Logger has are removed.  A record
\* logged on it now finds no handler there.
DictConfigRemove ==
    /\ swap.pc = "dictConfig"
    /\ swap.open = "none"
    /\ \E n \in swap.todo :
          /\ bound' = [bound EXCEPT ![n] = "none"]
          /\ swap' = [swap EXCEPT !.open = n]
    /\ UNCHANGED <<other, coordVars, queue, emitted, sending, flush, delivered,
                   handledBy, dcl, proc, mergeVars>>

\* ... second half: the Logger is given the handler "queue" of the combined
\* config.
DictConfigAdd ==
    /\ swap.pc = "dictConfig"
    /\ swap.open # "none"
    /\ bound' = [bound EXCEPT ![swap.open] = swap.to]
    /\ swap' = [swap EXCEPT !.open = "none", !.todo = @ \ {swap.open}]
    /\ UNCHANGED <<other, coordVars, queue, emitted, sending, flush, delivered,
                   handledBy, dcl, proc, mergeVars>>

\* Lines 287-325: dictConfig has returned; the handler instances are built,
\* and an exception of that loop ends the call.  Else the thread goes on to
\* the swap, to stop the listener in place if there is one.
BuildHandlers ==
    /\ swap.pc = "dictConfig"
    /\ swap.todo = {}
    /\ IF swap.herr # "ok"
       THEN /\ swap' = SwapIdle
            /\ last' = [last EXCEPT !.result = swap.herr]
       ELSE /\ swap' = [swap EXCEPT
                          !.pc = IF queue_listener.id # 0 THEN "stop"
                                 ELSE "assign"]
            /\ last' = last
    /\ UNCHANGED <<queue, emitted, sending, flush, delivered, handledBy, dcl, proc,
                   instVars, mergeVars, configs, queue_listener, configured,
                   effective, threads, before, ncalls, pristine, clean,
                   loggers>>

\* QueueListener.stop on the listener whose thread is i, first half: if the
\* listener's _thread is set (it has been started and no stop has joined it
\* yet) the sentinel is put on the queue.
StopPuts(i) == i \in DOMAIN threads /\ threads[i].state # "joined"

\* QueueListener.stop, second half: the join returns once the thread has
\* exited, and _thread is cleared.
Joined(i) == [threads EXCEPT ![i] = [@ EXCEPT !.state = "joined"]]

\* The outcomes of self._thread.join() in a stop() that has put its
\* sentinel, on the thread i that has exited: it returns (FALSE); when
\* another stop() has joined the thread and cleared _thread meanwhile, it
\* returns if it was waiting in join() by then, and else finds _thread None
\* and raises AttributeError (TRUE).
JoinRaises(i) == IF threads[i].state = "joined" THEN BOOLEAN ELSE {FALSE}

\* Line 326, self.queue_listener.stop(): the sentinel is put on the queue ...
ListenerStop ==
    /\ swap.pc = "stop"
    /\ IF StopPuts(queue_listener.id)
       THEN /\ queue' = Append(queue, Sentinel)
            /\ swap' = [swap EXCEPT !.pc = "join", !.target = queue_listener.id]
       ELSE /\ queue' = queue
            /\ swap' = [swap EXCEPT !.pc = "assign"]
    /\ UNCHANGED <<emitted, sending, flush, delivered, handledBy, dcl, proc, coordVars,
                   instVars, mergeVars>>

\* ... and the listener's thread is joined.  An AttributeError ends the
\* call: no new listener is built.
ListenerJoin ==
    /\ swap.pc = "join"
    /\ threads[swap.target].state \in {"exited", "joined"}
    /\ \E raises \in JoinRaises(swap.target) :
          IF raises
          THEN /\ threads' = threads
               /\ swap' = SwapIdle
               /\ last' = [last EXCEPT !.result = "AttributeError"]
          ELSE /\ threads' = Joined(swap.target)
               /\ swap' = [swap EXCEPT !.pc = "assign"]
               /\ last' = last
    /\ UNCHANGED <<queue, emitted, sending, flush, delivered, handledBy, dcl, proc,
                   instVars, mergeVars, configs, queue_listener, configured,
                   effective, before, ncalls, pristine, clean, loggers>>

\* Lines 328-330: self.queue_listener becomes a new QueueListener on
\* self.queue and the handler instances, not started yet.
ListenerAssign ==
    /\ swap.pc = "assign"
    /\ queue_listener' = [id |-> Unstarted,
                          handlers |-> swap.handler_instances]
    /\ swap' = [swap EXCEPT !.pc = "start"]
    /\ UNCHANGED <<queue, emitted, sending, flush, delivered, handledBy, dcl, proc,
                   instVars, mergeVars, configs, configured, effective,
                   threads, last, before, ncalls, pristine, clean, loggers>>

\* QueueListener.start on the listener self.queue_listener refers to now: a
\* new thread that runs _monitor becomes the listener's _thread.  A listener
\* that had a thread already is not asked about it: that thread goes on
\* consuming, and no stop() will reach it.
Started ==
    /\ threads' = Append(threads, ThreadWaiting(queue_listener.handlers))
    /\ queue_listener' = [queue_listener EXCEPT !.id = Len(threads) + 1]

\* Line 331, self.queue_listener.start().
ListenerStart ==
    /\ swap.pc = "start"
    /\ Started
    /\ swap' = [swap EXCEPT !.pc = "configured"]
    /\ UNCHANGED <<queue, emitted, sending, flush, delivered, handledBy, dcl, proc,
                   instVars, mergeVars, configs, configured, effective, last,
                   before, ncalls, pristine, clean, loggers>>

\* Line 333, self.configured = True, and the call returns.
ListenerConfigured ==
    /\ swap.pc = "configured"
    /\ configured' = TRUE
    /\ last' = [last EXCEPT !.result = "ok"]
    /\ swap' = SwapIdle
    /\ UNCHANGED <<queue, emitted, sending, flush, delivered, handledBy, dcl, proc,
                   instVars, mergeVars, configs, queue_listener, effective,
                   threads, before, ncalls, pristine, clean, loggers>>

\* The steps of a call of load_config or remove_config once it has begun.
ApplySteps ==
    \/ DictConfigRemove
    \/ DictConfigAdd
    \/ BuildHandlers
    \/ ListenerStop
    \/ ListenerJoin
    \/ ListenerAssign
    \/ ListenerStart
    \/ ListenerConfigured

ApplyConfigs == LoadBegin \/ RemoveBegin \/ ApplySteps

\* The producer that logs while calls are made: its records are all at
\* ERROR, a level every handler lets through.
SwapProducer == Emit("p1", {40}) \/ Propagate("p1")

\* The coordinator as it is built, or configured by two loads.
SwapInit ==
    /\ \/ CoordInit
       \/ TwoLoadsInit("DEBUG", "DEBUG")
    /\ DispatchIdle
    /\ MergeIdle

\* The coordinator configured by two loads, with no call under way.
ConcurrentInit ==
    /\ TwoLoadsInit("DEBUG", "DEBUG")
    /\ DispatchIdle
    /\ MergeIdle

NextSwap == SwapProducer \/ Relay \/ ApplyConfigs

\* A producer thread, the listener threads, and a thread that calls
\* load_config or remove_config.  A thread that can take a step is scheduled
\* in the end: the listener threads and the thread in the call are weakly
\* fair, and so is a producer that is in the middle of logging a record.
\* Nothing obliges a producer to log or a call to be made.
SpecSwap ==
    /\ SwapInit
    /\ [][NextSwap]_vars
    /\ WF_vars(Relay)
    /\ WF_vars(ApplySteps)
    /\ WF_vars(Propagate("p1"))

\* ---------------------------------------------------- claims on dispatch
Count(r, s) == Cardinality({i \in DOMAIN s : s[i] = r})

Admits(h, r) == r.level >= h.level

ListenerSinks == {queue_listener.handlers[i] : i \in DOMAIN queue_listener.handlers}

\* C1: once flush_queue has returned, every sink bound to the relay whose
\* threshold admits a record has received that record exactly once, for
\* every record that was enqueued before flush_queue was called.
C1_FlushDeliversExactlyOnce ==
    flush.pc = "done" =>
        \A r \in flush.present : \A h \in ListenerSinks :
            Admits(h, r) => Count(r, delivered[h.name]) = 1

\* C2: a sink never receives a record whose severity is below the sink's
\* threshold, whether the relay or flush_queue delivers it.
C2_NoDeliveryBelowThreshold ==
    \A h \in ListenerSinks : \A k \in DOMAIN delivered[h.name] :
        Admits(h, delivered[h.name][k])

\* C3: records of one producer reach each sink in emission order: no sink
\* receives a record before an earlier record of the same producer.
C3_EmissionOrderPerProducer ==
    \A h \in ListenerSinks : \A j, k \in DOMAIN delivered[h.name] :
        (/\ j < k
         /\ delivered[h.name][j].producer = delivered[h.name][k].producer)
            => delivered[h.name][j].seq <= delivered[h.name][k].seq

\* ------------------------------------------------------ claims on the swap
PossibleRecords ==
    {Record(p, k, l) : p \in Producers, k \in 1..MaxEmits, l \in RecordLevels}

Handled(r) == \E k \in DOMAIN handledBy : handledBy[k].rec = r

HandledOnceByRelay(r) ==
    /\ Cardinality({k \in DOMAIN handledBy : handledBy[k].rec = r}) = 1
    /\ \A k \in DOMAIN handledBy :
          handledBy[k].rec = r => handledBy[k].by \in DOMAIN threads
    /\ \A n \in SinkNames : Count(r, delivered[n]) <= 1

\* C4: a relay swap by apply_configs drops no record: every record enqueued
\* before, during or after the swap is eventually handled, and it is handled
\* exactly once, by the old relay or by the new one.
C4_SwapDropsNoRecord ==
    /\ [](\A r \in PossibleRecords : Handled(r) => HandledOnceByRelay(r))
    /\ \A r \in PossibleRecords :
          (r \in EmittedRecords) ~> HandledOnceByRelay(r)

\* ------------------------------------------- more claims on the merge alone
FormatterNames == {"A", "B"}

\* The documents of mdocs that define formatter n, and the last of them.
FormatterDocs(n) == {i \in DOMAIN mdocs : n \in DOMAIN mdocs[i].formatters}

LastFormatterDoc(n) ==
    CHOOSE i \in FormatterDocs(n) : \A j \in FormatterDocs(n) : j <= i

\* C11: when several merged documents define a formatter of the same name,
\* the effective configuration holds the definition of the last of those
\* documents.
C11_LaterFormatterWins ==
    MergeDone =>
        \A n \in FormatterNames :
            Cardinality(FormatterDocs(n)) > 1 =>
                /\ mres.err = "ok"
                /\ n \in DOMAIN mres.combined.formatters
                /\ mres.combined.formatters[n]
                      = mdocs[LastFormatterDoc(n)].formatters[n]

\* Two documents define formatter A differently, the earlier one with a key
\* the later one lacks, and the merge has run.
C11_Witness ==
    /\ MergeDone
    /\ Len(mdocs) = 2
    /\ FormatterDocs("A") = {1, 2}
    /\ DOMAIN mdocs[1].formatters["A"] = {"format", "datefmt"}
    /\ DOMAIN mdocs[2].formatters["A"] = {"format"}
    /\ mres.combined.formatters["A"] = mdocs[2].formatters["A"]

\* ---------------------------------------------------------------- get_logger
\* The names get_logger is tried on.
LoggerNames == {"", "root", "app"}

\* Lines 368-386 of get_logger(name), payload being the document that
\* logging_console holds when it is read.  A coordinator that is not
\* configured first runs load_config("logging_console", log_level="DEBUG"),
\* whose exception, if any, ends the call; then the Logger of that name is
\* put into self.loggers unless it is there, and returned.
GetLoggerBody(name, payload) ==
    LET f == get_config_file(ConsoleIdent)
        config == LoadedConfig(f.stem, payload, NoLogFilePath, "DEBUG")
        p == ApplyPrepare([Coordinator EXCEPT
                             !.configs = ReplaceConfig(configs, config)])
        err == IF configured THEN "ok" ELSE IF f.err # "ok" THEN f.err ELSE p.err
    IN  /\ ncalls' = ncalls + 1
        /\ before' = [co |-> Coordinator, threads |-> threads]
        /\ last' = [op |-> "get_logger", ident |-> [stem |-> name, ext |-> ""],
                    result |-> err]
        /\ IF configured \/ f.err # "ok"
           THEN UNCHANGED <<configs, effective, queue_listener, configured,
                            threads, pristine, bound>>
           ELSE /\ configs' = p.co.configs
                /\ effective' = p.co.effective
                /\ bound' = Rebound(bound, p, "self")
                /\ IF p.err = "ok" THEN SwapListener(p.handler_instances)
                   ELSE UNCHANGED <<queue_listener, configured, threads>>
                /\ pristine' = ReplaceConfig(pristine, config)
        /\ clean' = (clean /\ err = "ok")
        /\ loggers' = IF err # "ok" \/ name \in DOMAIN loggers THEN loggers
                      ELSE [n \in (DOMAIN loggers) \cup {name} |->
                               IF n = name THEN getLogger(name) ELSE loggers[n]]

\* get_logger(name) called on its own.
get_logger(name, payload) ==
    /\ ncalls < MaxCalls + MaxLookups
    /\ GetLoggerBody(name, payload)
    /\ UNCHANGED <<dispatchVars, other, mergeVars>>

GetLogger == \E name \in LoggerNames, payload \in Payloads :
                get_logger(name, payload)

NextLoggers == GetLogger \/ ApplyConfigs \/ Relay \/ SwapProducer

\* One thread calls get_logger while another calls load_config or
\* remove_config, on a coordinator configured by two loads (so get_logger
\* finds self.configured set and loads nothing itself), with a producer and
\* the listener threads running.
SpecLoggers == ConcurrentInit /\ [][NextLoggers]_vars

\* This step is a call of get_logger that returns.
Returned ==
    /\ ncalls' = ncalls + 1
    /\ last'.op = "get_logger"
    /\ last'.result = "ok"

\* When get_logger returns, the coordinator is configured and a relay is
\* running, and the name asked for has a handle.
ReturnedConfigured ==
    [][Returned => /\ configured'
                   /\ Running(queue_listener)'
                   /\ last'.ident.stem \in DOMAIN loggers']_vars

\* A name once asked for keeps its handle.
Memoized ==
    [][\A n \in DOMAIN loggers :
          n \in DOMAIN loggers' /\ loggers'[n] = loggers[n]]_vars

\* Different names have different handles.
OnePerName == \A n, m \in DOMAIN loggers : n # m => loggers[n] # loggers[m]

\* C12: get_logger returns one handle per name (the same name always the
\* same handle, different names different handles), and whenever it returns
\* the coordinator is configured and a relay is running.
C12_OneHandlePerName ==
    /\ ReturnedConfigured
    /\ Memoized
    /\ []OnePerName

\* ------------------------------------------- the uncaught-exception hook
\* The records log_uncaught_exceptions logs on the logger
\* uncaught_exceptions, at CRITICAL: the first holds the start delimiter
\* line, the second the lines of the trace, the third the end delimiter line.
HookLogger == "uncaught_exceptions"

HookMessages == <<"start delimiter", "trace", "end delimiter">>

HookRecord(k) == Record(HookLogger, k, 50)

Exceptions == {"RuntimeError", "KeyboardInterrupt"}

\* Lines 390-397: an exception reaches sys.excepthook.  The hook formats the
\* trace and calls get_logger; if that raises, the hook ends there.  A
\* KeyboardInterrupt is handed to sys.__excepthook__ and the hook returns.
\* Either way the interpreter exits on the exception that went uncaught:
\* with status 1, or on the interrupt (status 130) for a KeyboardInterrupt.  This is the hook of the coordinator, which
\* is sys.excepthook until get_instance builds another BubLogger.
Uncaught ==
    \E exc \in Exceptions, payload \in Payloads :
        /\ proc.pc = "running"
        /\ ~other.made
        /\ ncalls < MaxCalls
        /\ GetLoggerBody(HookLogger, payload)
        /\ proc' = IF exc = "KeyboardInterrupt"
                   THEN [proc EXCEPT !.pc = "atexit", !.exc = exc,
                                     !.status = 130]
                   ELSE IF last'.result # "ok"
                   THEN [proc EXCEPT !.pc = "atexit", !.exc = exc, !.status = 1]
                   ELSE [proc EXCEPT !.pc = "hook", !.exc = exc]
        /\ UNCHANGED <<queue, emitted, sending, flush, delivered, handledBy, swap, dcl,
                       other, mergeVars>>

\* Lines 398-400: the three logger.critical calls, one record each.  The
\* Logger uncaught_exceptions has no handler of its own (no document names
\* it), so the record comes to the handlers of the root logger only.
HookEmit ==
    /\ proc.pc = "hook"
    /\ proc.sent < Len(HookMessages)
    /\ Enqueue(bound["root"], HookRecord(proc.sent + 1))
    /\ proc' = [proc EXCEPT !.sent = @ + 1]
    /\ UNCHANGED <<emitted, sending, flush, delivered, handledBy, swap, dcl, coordVars,
                   mergeVars>>

\* Lines 402-403: sys.__excepthook__ prints the exception, sys.exit(1) ends
\* the hook; the interpreter goes on to its atexit callbacks.
HookExit ==
    /\ proc.pc = "hook"
    /\ proc.sent = Len(HookMessages)
    /\ proc' = [proc EXCEPT !.pc = "atexit", !.status = 1]
    /\ UNCHANGED <<queue, emitted, sending, flush, delivered, handledBy, swap, dcl,
                   coordVars, instVars, mergeVars>>

\* _stop, lines 412-415, registered with atexit (the callbacks run last
\* registered first, so this one runs after that of a BubLogger built
\* later): the listener, if there is one, is stopped: the sentinel is put on
\* the queue ...
AtExitStop ==
    /\ proc.pc = (IF other.made THEN "atexit_self" ELSE "atexit")
    /\ IF queue_listener.id # 0 /\ StopPuts(queue_listener.id)
       THEN /\ queue' = Append(queue, Sentinel)
            /\ proc' = [proc EXCEPT !.pc = "join", !.target = queue_listener.id]
       ELSE /\ queue' = queue
            /\ proc' = [proc EXCEPT !.pc = "exited"]
    /\ UNCHANGED <<emitted, sending, flush, delivered, handledBy, swap, dcl, coordVars,
                   instVars, mergeVars>>

\* ... and its thread joined; then the process exits.  An AttributeError of
\* the join (another stop() has cleared the listener's _thread) is printed
\* and the exit goes on.
AtExitJoin ==
    /\ proc.pc = "join"
    /\ threads[proc.target].state \in {"exited", "joined"}
    /\ threads' = Joined(proc.target)
    /\ proc' = [proc EXCEPT !.pc = "exited"]
    /\ UNCHANGED <<queue, emitted, sending, flush, delivered, handledBy, swap, dcl,
                   instVars, mergeVars, configs, queue_listener, configured, effective,
                   last, before, ncalls, pristine, clean, loggers>>

\* QueueListener._monitor of the other BubLogger's listener: the blocking
\* dequeue from its queue; the sentinel ends the thread.
OtherDequeue ==
    /\ other.thread = "waiting"
    /\ other.queue # <<>>
    /\ other' = [other EXCEPT
                   !.queue = Tail(@),
                   !.thread = IF Head(other.queue) = Sentinel THEN "exited"
                              ELSE "handling",
                   !.rec = IF Head(other.queue) = Sentinel THEN NoRecord
                           ELSE Head(other.queue)]
    /\ UNCHANGED <<bound, coordVars, queue, emitted, sending, flush, delivered,
                   handledBy, threadVars, mergeVars>>

\* QueueListener.handle of that listener on the record it holds, one
\* handler at a time.
OtherHandle ==
    /\ other.thread = "handling"
    /\ delivered' = IF other.done < Len(other.handlers)
                    THEN Deliver(delivered, other.handlers[other.done + 1],
                                 other.rec, TRUE)
                    ELSE delivered
    /\ IF other.done + 1 < Len(other.handlers)
       THEN /\ other' = [other EXCEPT !.done = @ + 1]
            /\ handledBy' = handledBy
       ELSE /\ other' = [other EXCEPT !.thread = "waiting", !.rec = NoRecord,
                                      !.done = 0]
            /\ handledBy' = Append(handledBy, [rec |-> other.rec, by |-> "other"])
    /\ UNCHANGED <<bound, coordVars, queue, emitted, sending, flush, threadVars,
                   mergeVars>>

OtherRelay == OtherDequeue \/ OtherHandle

\* The hook of the other BubLogger, which is sys.excepthook once
\* get_instance has built it, lines 390-397: get_logger on that BubLogger
\* runs load_config("logging_console", log_level="DEBUG") on it when it is
\* not configured (it has no listener then).
UncaughtOther ==
    \E exc \in Exceptions, payload \in Payloads :
        LET f == get_config_file(ConsoleIdent)
            config == LoadedConfig(f.stem, payload, NoLogFilePath, "DEBUG")
            p == ApplyPrepare([NewCoordinator EXCEPT
                                 !.configs = ReplaceConfig(other.configs, config),
                                 !.effective = effective])
            loads == ~other.configured /\ f.err = "ok"
            err == IF other.configured THEN "ok"
                   ELSE IF f.err # "ok" THEN f.err ELSE p.err
        IN  /\ proc.pc = "running"
            /\ other.made
            /\ ncalls < MaxCalls
            /\ ncalls' = ncalls + 1
            /\ other' = IF ~loads
                        THEN [other EXCEPT !.loggers =
                                 IF err = "ok" /\ HookLogger \notin DOMAIN @
                                 THEN [n \in (DOMAIN @) \cup {HookLogger} |->
                                          IF n = HookLogger
                                          THEN getLogger(HookLogger) ELSE @[n]]
                                 ELSE @]
                        ELSE [other EXCEPT
                                !.configs = p.co.configs,
                                !.configured = (p.err = "ok"),
                                !.handlers = p.handler_instances,
                                !.thread = IF p.err = "ok" THEN "waiting"
                                           ELSE "none",
                                !.loggers =
                                   IF err = "ok" /\ HookLogger \notin DOMAIN @
                                   THEN [n \in (DOMAIN @) \cup {HookLogger} |->
                                            IF n = HookLogger
                                            THEN getLogger(HookLogger)
                                            ELSE @[n]]
                                   ELSE @]
            /\ effective' = IF loads THEN p.co.effective ELSE effective
            /\ bound' = IF loads THEN Rebound(bound, p, "other") ELSE bound
            /\ last' = [op |-> "get_logger",
                        ident |-> [stem |-> HookLogger, ext |-> ""],
                        result |-> err]
            /\ before' = [co |-> Coordinator, threads |-> threads]
            /\ clean' = (clean /\ err = "ok")
            /\ proc' = IF exc = "KeyboardInterrupt"
                       THEN [proc EXCEPT !.pc = "atexit", !.exc = exc,
                                         !.status = 130]
                       ELSE IF err # "ok"
                       THEN [proc EXCEPT !.pc = "atexit", !.exc = exc,
                                         !.status = 1]
                       ELSE [proc EXCEPT !.pc = "hook", !.exc = exc]
            /\ UNCHANGED <<configs, queue_listener, configured, threads,
                           pristine, loggers, queue, emitted, sending, flush, delivered,
                           handledBy, swap, dcl, mergeVars>>

\* _stop of the other BubLogger, the atexit callback registered last and so
\* run first: its listener, if it has one that no stop has joined, is
\* stopped: the sentinel is put on its queue ...
AtExitStopOther ==
    /\ proc.pc = "atexit"
    /\ other.made
    /\ IF other.thread \in {"waiting", "handling", "exited"}
       THEN /\ other' = [other EXCEPT !.queue = Append(@, Sentinel)]
            /\ proc' = [proc EXCEPT !.pc = "join_other"]
       ELSE /\ other' = other
            /\ proc' = [proc EXCEPT !.pc = "atexit_self"]
    /\ UNCHANGED <<bound, coordVars, queue, emitted, sending, flush, delivered,
                   handledBy, swap, dcl, mergeVars>>

\* ... and its thread joined; the coordinator's _stop comes next.
AtExitJoinOther ==
    /\ proc.pc = "join_other"
    /\ other.thread = "exited"
    /\ other' = [other EXCEPT !.thread = "joined"]
    /\ proc' = [proc EXCEPT !.pc = "atexit_self"]
    /\ UNCHANGED <<bound, coordVars, queue, emitted, sending, flush, delivered,
                   handledBy, swap, dcl, mergeVars>>


\* No thread runs in a process that has exited.
Alive == proc.pc # "exited"

\* get_instance is called by the main thread while it runs.
HookGetInstance == proc.pc = "running" /\ GetInstance

HookOtherRelay == Alive /\ OtherRelay

HookRelay == Alive /\ Relay

\* The process starts with a coordinator that nothing has configured, or
\* with one configured by two loads.
HookInit ==
    /\ \/ CoordInit
       \/ \E lv2 \in {"DEBUG", "ERROR"} : TwoLoadsInit("DEBUG", lv2)
    /\ DispatchIdle
    /\ MergeIdle

NextHook ==
    \/ HookGetInstance
    \/ Uncaught
    \/ UncaughtOther
    \/ HookEmit
    \/ HookExit
    \/ AtExitStopOther
    \/ AtExitJoinOther
    \/ AtExitStop
    \/ AtExitJoin
    \/ HookRelay
    \/ HookOtherRelay

\* The main thread, on which an exception goes uncaught, and the listener
\* threads.  Threads that can take a step are scheduled in
\* the end.
SpecHook ==
    /\ HookInit
    /\ [][NextHook]_vars
    /\ WF_vars(HookRelay)
    /\ WF_vars(HookOtherRelay)
    /\ WF_vars(HookEmit \/ HookExit \/ AtExitStopOther \/ AtExitJoinOther
                  \/ AtExitStop \/ AtExitJoin)

\* The records logged so far on the logger uncaught_exceptions.
HookRecords == {r \in EmittedRecords : r.producer = HookLogger}

\* The hook, called with an exception that is no KeyboardInterrupt, got its
\* logger and has run to its end.
HookRan ==
    /\ proc.exc = "RuntimeError"
    /\ proc.pc \in {"atexit", "join_other", "atexit_self", "join", "exited"}
    /\ last.op = "get_logger"
    /\ last.result = "ok"

\* C13: an uncaught failure that is not a cancellation signal causes exactly
\* one critical record on the logger uncaught_exceptions, which carries the
\* start and end delimiter lines around the trace, and the process then
\* exits with status 1.
C13_OneDelimitedCriticalRecord ==
    HookRan =>
        /\ Cardinality(HookRecords) = 1
        /\ \A r \in HookRecords : r.level = 50
        /\ proc.status = 1

\* ------------------------------------------- more claims on the merge alone
\* C14: every logger defined by any of the merged documents, not only by the
\* last one, is in the effective configuration, and every logger of the
\* effective configuration has the relay sink as its only sink.
C14_AllLoggersPresent ==
    MergeDone =>
        /\ \A i \in DOMAIN mdocs : \A n \in DOMAIN mdocs[i].loggers :
              n \in DOMAIN mres.combined.loggers
        /\ \A n \in DOMAIN mres.combined.loggers :
              mres.combined.loggers[n].handlers = <<"queue">>

\* -------------------------------------------- more claims on the coordinator
\* Three calls were made: two load_config of different documents d1 and d2,
\* both successful (each started a listener), then remove_config(d2), which
\* succeeded.
LoadLoadRemove ==
    /\ ncalls = 3
    /\ last.op = "remove_config"
    /\ last.result = "ok"
    /\ Len(before.threads) = 2
    /\ Len(before.co.configs) = 2
    /\ last.ident.stem = before.co.configs[2].name

\* The coordinator after load_config of the one document that pristine
\* holds, as load_config built it.
AfterLoadAlone == ApplyPrepare([NewCoordinator EXCEPT !.configs = pristine])

\* C15: merging does not modify the loaded documents: after load_config(d1),
\* load_config(d2), remove_config(d2) the effective configuration and the
\* relay's sinks are those that load_config(d1) alone gives.
C15_MergeLeavesDocumentsAlone ==
    LoadLoadRemove =>
        /\ effective = AfterLoadAlone.co.effective
        /\ queue_listener.handlers = AfterLoadAlone.handler_instances

\* ------------------------------------------- more claims on the merge alone
\* The keys that the documents defining formatter n give it, and the last
\* document that gives key k.
FormatterKeys(n) ==
    UNION {DOMAIN mdocs[i].formatters[n] : i \in FormatterDocs(n)}

LastKeyDoc(n, k) ==
    CHOOSE i \in FormatterDocs(n) :
        /\ k \in DOMAIN mdocs[i].formatters[n]
        /\ \A j \in FormatterDocs(n) :
              k \in DOMAIN mdocs[j].formatters[n] => j <= i

\* C16: a formatter name defined in several merged documents has, in the
\* merged configuration, the union of the keys of those definitions, each
\* key with the value of the last document that gives it; a key that only
\* an earlier document gives is kept.
C16_FormatterKeysUnion ==
    MergeDone =>
        \A n \in FormatterNames :
            Cardinality(FormatterDocs(n)) > 1 =>
                /\ n \in DOMAIN mres.combined.formatters
                /\ DOMAIN mres.combined.formatters[n] = FormatterKeys(n)
                /\ \A k \in FormatterKeys(n) :
                      mres.combined.formatters[n][k]
                          = mdocs[LastKeyDoc(n, k)].formatters[n][k]

\* C17: after the merge of any list of documents the logger-visible sinks of
\* the effective configuration hold exactly one sink of the relay kind, also
\* when a document supplies a relay-kind sink itself, and no sink of any
\* other kind.
C17_ExactlyOneRelaySink ==
    (MergeDone /\ mres.err = "ok") =>
        LET visible == mres.combined.handlers
        IN  /\ Cardinality({n \in DOMAIN visible :
                               visible[n].class = QueueHandlerClass}) = 1
            /\ \A n \in DOMAIN visible : visible[n].class = QueueHandlerClass

\* ------------------------------------ two threads reconfiguring at a time
\* isinstance(handler, logging.StreamHandler): FileHandler and
\* RotatingFileHandler are subclasses of StreamHandler.
IsStreamHandler(h) ==
    h.class \in {"StreamHandler", "FileHandler", "RotatingFileHandler"}

\* disable_console_logging, lines 95-103: nothing to do without a listener;
\* else the handlers of the listener that are no StreamHandler are kept.
DclBegin ==
    /\ dcl.pc = "idle"
    /\ dcl.calls < MaxDisables
    /\ dcl' = IF queue_listener.id = 0
              THEN [dcl EXCEPT !.calls = @ + 1, !.result = "ok"]
              ELSE [dcl EXCEPT !.calls = @ + 1, !.pc = "stop",
                       !.result = "running",
                       !.handlers = SelectSeq(queue_listener.handlers,
                                        LAMBDA h : ~IsStreamHandler(h))]
    /\ UNCHANGED <<queue, emitted, sending, flush, delivered, handledBy, swap, proc,
                   coordVars, instVars, mergeVars>>

\* Line 106, self.queue_listener.stop(): the sentinel is put on the queue
\* (a listener that has no thread is left alone) ...
DclStop ==
    /\ dcl.pc = "stop"
    /\ IF StopPuts(queue_listener.id)
       THEN /\ queue' = Append(queue, Sentinel)
            /\ dcl' = [dcl EXCEPT !.pc = "join", !.target = queue_listener.id]
       ELSE /\ queue' = queue
            /\ dcl' = [dcl EXCEPT !.pc = "close"]
    /\ UNCHANGED <<emitted, sending, flush, delivered, handledBy, swap, proc, coordVars,
                   instVars, mergeVars>>

\* ... and the listener's thread is joined.  An AttributeError ends the
\* call.
DclJoin ==
    /\ dcl.pc = "join"
    /\ threads[dcl.target].state \in {"exited", "joined"}
    /\ \E raises \in JoinRaises(dcl.target) :
          IF raises
          THEN /\ threads' = threads
               /\ dcl' = [dcl EXCEPT !.pc = "idle", !.handlers = <<>>,
                                     !.target = 0, !.result = "AttributeError"]
          ELSE /\ threads' = Joined(dcl.target)
               /\ dcl' = [dcl EXCEPT !.pc = "close"]
    /\ UNCHANGED <<queue, emitted, sending, flush, delivered, handledBy, swap, proc,
                   instVars, mergeVars, configs, queue_listener, configured, effective,
                   last, before, ncalls, pristine, clean, loggers>>

\* Lines 109-111, one turn of the loop: the loop goes over the handlers of
\* the listener self.queue_listener refers to when the loop begins, and a
\* handler that is a StreamHandler is closed; closed holds the names of the
\* handlers disable_console_logging has closed.  After the last handler the
\* call goes on to line 114.
DclClose ==
    /\ dcl.pc = "close"
    /\ \E hs \in {IF dcl.done = 0 THEN queue_listener.handlers
                  ELSE dcl.closing} :
          dcl' = [dcl EXCEPT
                    !.pc = IF dcl.done + 1 < Len(hs) THEN "close" ELSE "assign",
                    !.closing = IF dcl.done + 1 < Len(hs) THEN hs ELSE <<>>,
                    !.done = IF dcl.done + 1 < Len(hs) THEN @ + 1 ELSE 0,
                    !.closed = IF dcl.done < Len(hs)
                                  /\ IsStreamHandler(hs[dcl.done + 1])
                               THEN @ \cup {hs[dcl.done + 1].name}
                               ELSE @]
    /\ UNCHANGED <<queue, emitted, sending, flush, delivered, handledBy, swap, proc,
                   coordVars, instVars, mergeVars>>

\* Lines 114-116: self.queue_listener becomes a new QueueListener on the
\* kept handlers, not started yet.
DclAssign ==
    /\ dcl.pc = "assign"
    /\ queue_listener' = [id |-> Unstarted, handlers |-> dcl.handlers]
    /\ dcl' = [dcl EXCEPT !.pc = "start"]
    /\ UNCHANGED <<queue, emitted, sending, flush, delivered, handledBy, swap, proc,
                   instVars, mergeVars, configs, configured, effective,
                   threads, last, before, ncalls, pristine, clean, loggers>>

\* Line 117, self.queue_listener.start(), and the call returns.
DclStart ==
    /\ dcl.pc = "start"
    /\ Started
    /\ dcl' = [dcl EXCEPT !.pc = "idle", !.handlers = <<>>, !.target = 0,
                          !.result = "ok"]
    /\ UNCHANGED <<queue, emitted, sending, flush, delivered, handledBy, swap, proc,
                   instVars, mergeVars, configs, configured, effective, last, before,
                   ncalls, pristine, clean, loggers>>

DisableConsoleLogging ==
    DclBegin \/ DclStop \/ DclJoin \/ DclClose \/ DclAssign \/ DclStart

NextConcurrent == ApplyConfigs \/ DisableConsoleLogging \/ Relay \/ SwapProducer

\* One thread calls load_config or remove_config while another calls
\* disable_console_logging, on a coordinator configured by two loads, with
\* a producer and the listener threads running.
SpecConcurrent == ConcurrentInit /\ [][NextConcurrent]_vars

\* The listener threads that are consuming from the queue.
RunningThreads ==
    {i \in DOMAIN threads : threads[i].state \in {"waiting", "handling"}}

\* C18: at every moment at most one relay consumer is running on the queue,
\* and a relay that is running is the one the coordinator refers to, also
\* when two threads call load_config, remove_config or
\* disable_console_logging at the same time.
C18_AtMostOneRelayRunning ==
    /\ Cardinality(RunningThreads) <= 1
    /\ \A i \in RunningThreads : i = queue_listener.id

\* ------------------------------------- flush_queue with no producer running
\* The queue holds the records one producer logged before flush_queue is
\* called; nothing is logged afterwards.
FlushInit ==
    /\ \E lv2 \in {"DEBUG", "ERROR"} : TwoLoadsInit("DEBUG", lv2)
    /\ \E n \in 0..MaxEmits : \E lv \in [1..n -> RecordLevels] :
          /\ queue = [i \in 1..n |-> Record("p1", i, lv[i])]
          /\ emitted = [p \in Producers |-> IF p = "p1" THEN n ELSE 0]
    /\ sending = [p \in Producers |-> NoRecord]
    /\ flush = FlushIdle
    /\ delivered = [n \in SinkNames |-> <<>>]
    /\ handledBy = <<>>
    /\ swap = SwapIdle
    /\ dcl = DclIdle
    /\ proc = ProcRunning
    /\ MergeIdle

NextFlush == Relay \/ FlushQueue

\* The listener thread and a thread that calls flush_queue once.  Both are
\* scheduled as long as they can take a step; a thread blocked in
\* Queue.get() takes none until the queue holds something.
SpecFlush ==
    /\ FlushInit
    /\ [][NextFlush]_vars
    /\ WF_vars(Relay)
    /\ WF_vars(FlushQueue)

\* C19: flush_queue, called while a relay is running and with no producer
\* logging during the call, eventually returns.
C19_FlushTerminates ==
    (flush.pc = "check") ~> (flush.pc = "done")

\* ---------------------------------------------- more claims on the hook
\* Record r has reached every handler of the listener of the queue the root
\* logger feeds.
DeliveredToSinks(r) ==
    LET hs == IF bound["root"] = "other" THEN other.handlers
              ELSE queue_listener.handlers
    IN  \A i \in DOMAIN hs : Count(r, delivered[hs[i].name]) >= 1

\* C20: the uncaught-exception hook flushes the queue after it has logged
\* its records and before the process terminates (a call of flush_queue has
\* returned by then), so that every record the hook logged has been
\* delivered to the sinks when the process has exited.
C20_HookFlushesBeforeExit ==
    (HookRan /\ proc.pc = "exited") =>
        /\ flush.pc = "done"
        /\ \A k \in 1..proc.sent : DeliveredToSinks(HookRecord(k))

\* ------------------------------------ stopping a listener during a flush
\* The threads of the process while it lives: one reconfigures, one calls
\* disable_console_logging, one calls flush_queue, beside the listener
\* threads; the main thread may end on an uncaught exception, after which
\* _stop runs.
NextStopFlush ==
    \/ Alive /\ ApplyConfigs
    \/ Alive /\ DisableConsoleLogging
    \/ Alive /\ FlushQueue
    \/ Uncaught
    \/ HookEmit
    \/ HookExit
    \/ AtExitStop
    \/ AtExitJoin
    \/ HookRelay

SpecStopFlush == ConcurrentInit /\ [][NextStopFlush]_vars

\* The listeners some call of QueueListener.stop is joining.
StopTargets ==
    (IF swap.pc = "join" THEN {swap.target} ELSE {})
        \cup (IF dcl.pc = "join" THEN {dcl.target} ELSE {})
        \cup (IF proc.pc = "join" THEN {proc.target} ELSE {})

\* The sentinel is still on its way to the listener.
SentinelQueued == \E i \in DOMAIN queue : queue[i] = Sentinel

\* C21: a stop of the listener (by apply_configs, disable_console_logging
\* or _stop at exit) always completes, also while flush_queue runs: the
\* sentinel it puts on the queue is taken by the listener's thread, so a
\* listener being joined has exited or still has a sentinel coming; the
\* sentinel is never taken from the queue by flush_queue, nor handled as a
\* record.
C21_StopSignalReachesRelay ==
    /\ flush.rec # Sentinel
    /\ \A i \in DOMAIN handledBy : handledBy[i].rec # Sentinel
    /\ \A t \in StopTargets :
          threads[t].state \in {"exited", "joined"} \/ SentinelQueued

\* ------------------------------------------ disable_console_logging alone
\* One thread calls disable_console_logging on a coordinator configured by
\* the console document and the file document, with a producer and the
\* listener threads running.
NextDisable == DisableConsoleLogging \/ Relay \/ SwapProducer

SpecDisable == ConcurrentInit /\ [][NextDisable]_vars

\* disable_console_logging has been called and has returned.
DisableReturned == dcl.result = "ok"

\* The file and rotating-file handlers of the listener that was running
\* when the call was made (listener 2 of the two loads).
FileSinksBefore ==
    {threads[2].handlers[i] : i \in
        {j \in DOMAIN threads[2].handlers :
            threads[2].handlers[j].class
                \in {"FileHandler", "RotatingFileHandler"}}}

\* C22: disable_console_logging on a configured coordinator removes the
\* console handlers only: when it has returned a listener is running, and
\* it holds every FileHandler and RotatingFileHandler the listener held
\* before the call, none of which has been closed.
C22_DisableKeepsFileSinks ==
    DisableReturned =>
        /\ Running(queue_listener)
        /\ \A h \in FileSinksBefore :
              /\ \E i \in DOMAIN queue_listener.handlers :
                    queue_listener.handlers[i] = h
              /\ h.name \notin dcl.closed

=============================================================================
